---------------------------- MODULE Spec2Model ----------------------------
(***************************************************************************)
(* Model of BOB (Baseline Object Broker): the calibration engine           *)
(* (calculatePPM, applyPPMToObject), the manual polygon builder and the    *)
(* two session layers that drive them: the single-component App            *)
(* (src/unnamed/part_005) and the context hook                             *)
(* (src/src/hooks/useDetectionState.jsx).                                  *)
(*                                                                         *)
(* Number representation.  JavaScript numbers are modelled exactly as      *)
(* rationals held in integers with a fixed unit per quantity:              *)
(*   pixel coordinates and pixel lengths : whole pixels                    *)
(*   ppm                                 : 1/COIN_DIAMETER_MM px per mm,   *)
(*                                         with COIN_DIAMETER_MM in tenths *)
(*                                         of a mm (so pd/26.5 is 10*pd)   *)
(*   realLength, measurements.perimeter  : hundredths of a mm (the code    *)
(*                                         rounds to 2 decimals)           *)
(*   area                                : half square pixels              *)
(* A JavaScript value that may be null, undefined, NaN or an object is a   *)
(* record [t, v].                                                          *)
(***************************************************************************)
EXTENDS Integers, Sequences, FiniteSets, TLC

\* Bounds of the model
MaxObjects == 2
MaxPoints == 3
MaxTasks == 1
MaxNow == 0
MaxCreated == 1

\* src/src/opencvUtils.js:9  (26.5 mm, held in tenths of a millimetre)
COIN_DIAMETER_MM == 265

---------------------------------------------------------------------------
\* JavaScript values

Null == [t |-> "null", v |-> 0]
Undefined == [t |-> "undefined", v |-> 0]
NaN == [t |-> "nan", v |-> 0]
Num(x) == [t |-> "num", v |-> x]
\* the object detectCoin returns: {pixelDiameter, found, message}
CoinResult(found, d) == [t |-> "object", v |-> 0, pixelDiameter |-> d, found |-> found]

\* the outcome of awaiting a promise that rejects
Rejected == [t |-> "rejected", v |-> 0]

IsNum(x) == x.t = "num"

\* ToNumber: null -> 0, a number -> itself, undefined / NaN / object -> NaN
ToNumber(x) == IF x.t = "num" THEN x ELSE IF x.t = "null" THEN Num(0) ELSE NaN

\* !x
Falsy(x) == x.t \in {"null", "undefined", "nan"} \/ (x.t = "num" /\ x.v = 0)

\* x <= 0 (false whenever either side converts to NaN)
LeqZero(x) == ToNumber(x).t = "num" /\ ToNumber(x).v <= 0

Abs(n) == IF n < 0 THEN -n ELSE n

\* Math.round(a / b): the nearest integer, halves towards +infinity
RoundDiv(a, b) == IF b > 0 THEN (2 * a + b) \div (2 * b)
                  ELSE (2 * (-a) + (-b)) \div (2 * (-b))

\* Math.sqrt on the integer grid (exact on perfect squares, else truncated)
Sqrt(n) == CHOOSE r \in 0..n : r * r <= n /\ (r + 1) * (r + 1) > n

\* variants of the calibration engine with one line changed

\* the guard of applyPPMToObject without its "ppm <= 0" half
NoScaleFalsyOnly(ppm) == Falsy(ppm)

\* calculatePPM multiplying by the coin diameter instead of dividing
calculatePPMTimes(pixelDistance) ==
    IF ToNumber(pixelDistance).t = "num"
    THEN Num((ToNumber(pixelDistance).v * COIN_DIAMETER_MM * COIN_DIAMETER_MM) \div 10)
    ELSE NaN

---------------------------------------------------------------------------
\* Calibration engine, src/src/opencvUtils.js

\* calculatePPM(pixelDistance) = pixelDistance / COIN_DIAMETER_MM
calculatePPM(pixelDistance) ==
    IF ToNumber(pixelDistance).t = "num"
    THEN Num(ToNumber(pixelDistance).v * 10)
    ELSE NaN

\* calculatePixelDistance(p1, p2)
calculatePixelDistance(p1, p2) ==
    Sqrt((p2.x - p1.x) * (p2.x - p1.x) + (p2.y - p1.y) * (p2.y - p1.y))

\* Math.round((len / ppm) * 100) / 100, in hundredths of a mm; ppm is truthy here
ScaledLength(len, ppm) ==
    IF ToNumber(len).t = "num" /\ ppm.t = "num"
    THEN Num(RoundDiv(100 * COIN_DIAMETER_MM * ToNumber(len).v, ppm.v))
    ELSE NaN

\* the "!ppm || ppm <= 0" guard of applyPPMToObject
NoScale(ppm) == Falsy(ppm) \/ LeqZero(ppm)

\* applyPPMToObject scaling from the previous realLength where there is one
applyPPMCumulative(obj, ppm) ==
    IF NoScale(ppm) THEN obj
    ELSE LET updatedEdges ==
                 [i \in 1..Len(obj.edges) |->
                     [obj.edges[i] EXCEPT
                         !.realLength =
                             IF obj.edges[i].realLength.t = "num"
                             THEN ScaledLength(obj.edges[i].realLength, ppm)
                             ELSE ScaledLength(Num(obj.edges[i].pixelLength), ppm)]]
         IN [obj EXCEPT
                !.edges = updatedEdges,
                !.measurements =
                    [edges |-> [i \in 1..Len(updatedEdges) |->
                                  [pixelLength |-> updatedEdges[i].pixelLength,
                                   realLength |-> updatedEdges[i].realLength]],
                     perimeter |-> ScaledLength(obj.perimeter, ppm),
                     diameter |-> Undefined]]

\* applyPPMToObject(obj, ppm), src/src/opencvUtils.js
applyPPMToObject(obj, ppm) ==
    IF NoScale(ppm) THEN obj
    ELSE LET updatedEdges ==
                 [i \in 1..Len(obj.edges) |->
                     [obj.edges[i] EXCEPT
                         !.realLength = ScaledLength(Num(obj.edges[i].pixelLength), ppm)]]
             realPerimeter == ScaledLength(obj.perimeter, ppm)
         IN [obj EXCEPT
                !.edges = updatedEdges,
                !.measurements =
                    [edges |-> [i \in 1..Len(updatedEdges) |->
                                  [pixelLength |-> updatedEdges[i].pixelLength,
                                   realLength |-> updatedEdges[i].realLength]],
                     perimeter |-> realPerimeter,
                     diameter |-> Undefined]]

\* applyPPMToObject(obj, ppm) of the older copies of the library, src/unnamed/part_000
\* and src/unnamed/part_002: the result spreads obj and replaces measurements only
applyPPMToObjectOlder(obj, ppm) ==
    IF NoScale(ppm) THEN obj
    ELSE LET updatedEdges ==
                 [i \in 1..Len(obj.edges) |->
                     [obj.edges[i] EXCEPT
                         !.realLength = ScaledLength(Num(obj.edges[i].pixelLength), ppm)]]
             realPerimeter == ScaledLength(obj.perimeter, ppm)
         IN [obj EXCEPT
                !.measurements =
                    [edges |-> [i \in 1..Len(updatedEdges) |->
                                  [pixelLength |-> updatedEdges[i].pixelLength,
                                   realLength |-> updatedEdges[i].realLength]],
                     perimeter |-> realPerimeter,
                     diameter |-> Undefined]]

\* applyPPMToObject(obj, ppm), src/src/utils/opencvUtils.js
applyPPMToObjectUtils(obj, ppm) ==
    IF NoScale(ppm) THEN obj
    ELSE LET updatedEdges ==
                 [i \in 1..Len(obj.edges) |->
                     [obj.edges[i] EXCEPT
                         !.realLength = ScaledLength(Num(obj.edges[i].pixelLength), ppm)]]
             realPerimeter == IF Falsy(obj.perimeter) THEN Null
                              ELSE ScaledLength(obj.perimeter, ppm)
         IN [obj EXCEPT
                !.edges = updatedEdges,
                !.measurements =
                    [edges |-> [i \in 1..Len(updatedEdges) |->
                                  [pixelLength |-> updatedEdges[i].pixelLength,
                                   realLength |-> updatedEdges[i].realLength]],
                     perimeter |-> realPerimeter,
                     diameter |-> Undefined]]

---------------------------------------------------------------------------
\* Polygon geometry shared by the shape analyzer and the manual polygon builder

Point(x, y) == [x |-> x, y |-> y]

RECURSIVE SumPixelLength(_, _)
SumPixelLength(edges, n) ==
    IF n = 0 THEN 0 ELSE edges[n].pixelLength + SumPixelLength(edges, n - 1)

\* the edge loop without the edge that wraps from the last vertex to the first
BuildEdgesOpen(points) ==
    [i \in 1..(Len(points) - 1) |->
        [start |-> points[i],
         end |-> points[i + 1],
         pixelLength |-> calculatePixelDistance(points[i], points[i + 1]),
         realLength |-> Null]]

\* the edge loop: one edge per vertex, the last one wrapping to the first
BuildEdges(points) ==
    [i \in 1..Len(points) |->
        [start |-> points[i],
         end |-> points[(i % Len(points)) + 1],
         pixelLength |-> calculatePixelDistance(points[i], points[(i % Len(points)) + 1]),
         realLength |-> Null]]

\* edges.map(e => ({pixelLength: e.pixelLength, realLength: null}))
MeasurementEdges(edges) ==
    [i \in 1..Len(edges) |-> [pixelLength |-> edges[i].pixelLength, realLength |-> Null]]

RECURSIVE ShoelaceSum(_, _)
ShoelaceSum(points, i) ==
    IF i = 0 THEN 0
    ELSE LET j == (i % Len(points)) + 1
         IN points[i].x * points[j].y - points[j].x * points[i].y
            + ShoelaceSum(points, i - 1)

\* the shoelace sum without Math.abs
ShoelaceSigned(points) == ShoelaceSum(points, Len(points))

\* Math.abs(area) / 2, held in half square pixels
ShoelaceArea(points) == Abs(ShoelaceSum(points, Len(points)))

MinOf(S) == CHOOSE m \in S : \A k \in S : m <= k
MaxOf(S) == CHOOSE m \in S : \A k \in S : m >= k

\* the bounding box {x: minX, y: minY, width: maxX - minX, height: maxY - minY}
BoundingBox(points) ==
    LET xs == {points[i].x : i \in 1..Len(points)}
        ys == {points[i].y : i \in 1..Len(points)}
    IN [x |-> Num(MinOf(xs)), y |-> Num(MinOf(ys)),
        width |-> Num(MaxOf(xs) - MinOf(xs)),
        height |-> Num(MaxOf(ys) - MinOf(ys))]

ObjectId(prefix, t, n) == [prefix |-> prefix, t |-> t, n |-> n]
ObjectName(label, n) == [label |-> label, n |-> n]

\* newObject of finishCreatingObject, src/unnamed/part_005
AppManualObject(points, t, idNumber, nameNumber) ==
    LET edges == BuildEdges(points)
    IN [id |-> ObjectId("manual", t, idNumber),
        name |-> ObjectName("Object", nameNumber),
        contour |-> BoundingBox(points),
        points |-> points,
        edges |-> edges,
        area |-> Num(ShoelaceArea(points)),
        perimeter |-> Num(SumPixelLength(edges, Len(edges))),
        isCoin |-> FALSE,
        pixelDistance |-> Null,
        measurements |-> [edges |-> MeasurementEdges(edges),
                          perimeter |-> Null,
                          diameter |-> Undefined]]

\* newObj of finishManualObject, src/src/hooks/useDetectionState.jsx
HookManualObject(points, t, nextIndex) ==
    LET edges == BuildEdges(points)
    IN [id |-> ObjectId("manual", t, nextIndex),
        name |-> ObjectName("Object", nextIndex),
        contour |-> BoundingBox(points),
        points |-> points,
        edges |-> edges,
        area |-> Num(ShoelaceArea(points)),
        perimeter |-> Num(SumPixelLength(edges, Len(edges))),
        isCoin |-> FALSE,
        pixelDistance |-> Undefined,
        measurements |-> [edges |-> MeasurementEdges(edges),
                          perimeter |-> Num(SumPixelLength(edges, Len(edges))),
                          diameter |-> Undefined]]

---------------------------------------------------------------------------
\* Images and the contours OpenCV traces in them (the inputs of detection)

\* Math.PI as the rational PiNum / PiDen
PiNum == 355
PiDen == 113

Contour(area, x, y, width, height, arcLength, approx) ==
    [area |-> area, x |-> x, y |-> y, width |-> width, height |-> height,
     arcLength |-> arcLength, approx |-> approx]

ContourCoin ==
    Contour(7850, 150, 150, 100, 100, 330,
            <<Point(200, 150), Point(250, 200), Point(200, 250), Point(150, 200)>>)
ContourCoinWide ==
    Contour(8490, 148, 148, 104, 104, 343,
            <<Point(200, 148), Point(252, 200), Point(200, 252), Point(148, 200)>>)
ContourBar ==
    Contour(4800, 300, 100, 120, 40, 320,
            <<Point(300, 100), Point(420, 100), Point(420, 140), Point(300, 140)>>)
ContourSpeck ==
    Contour(500, 50, 50, 25, 25, 90,
            <<Point(50, 50), Point(75, 50), Point(75, 75)>>)
ContourEdge ==
    Contour(7850, 0, 200, 100, 100, 330,
            <<Point(0, 200), Point(100, 200), Point(100, 300), Point(0, 300)>>)
ContourSliver ==
    Contour(3600, 100, 250, 20, 200, 440,
            <<Point(100, 250), Point(120, 250), Point(120, 450), Point(100, 450)>>)

\* what the OpenCV pipeline finds when it is given an image: whether initOpenCV
\* resolves (cvReady), whether the image decodes, the canvas size, the contours of
\* the detectContours pipeline and those of the detectCoin pipeline
Image(name, cvReady, decodes, width, height, contours, coinContours) ==
    [name |-> name, cvReady |-> cvReady, decodes |-> decodes, width |-> width,
     height |-> height, contours |-> contours, coinContours |-> coinContours]

\* the session holds an image by name; ImageData is what the pipeline finds in it.
\* The images a session loads decode, on a page where OpenCV has loaded.
NoImage == "none"
Images == {"imgA", "imgB"}

ImageData(name) ==
    CASE name = "imgA" ->
           Image(name, TRUE, TRUE, 500, 500, <<ContourBar, ContourCoin, ContourSpeck>>,
                 <<ContourBar, ContourCoinWide>>)
      [] name = "imgB" ->
           Image(name, TRUE, TRUE, 500, 500, <<ContourEdge, ContourSliver, ContourBar>>,
                 <<ContourEdge, ContourBar>>)
      [] name = "noOpenCV" ->
           Image(name, FALSE, TRUE, 500, 500, <<ContourBar>>, <<ContourCoin>>)
      [] OTHER -> Image(name, TRUE, FALSE, 0, 0, <<>>, <<>>)

---------------------------------------------------------------------------
\* Shape analyzer, src/src/opencvUtils.js

\* FILTER 1 with the lower bound made inclusive
AreaRejectedInclusive(c, imageArea) == c.area <= 3000 \/ 2 * c.area > imageArea

\* FILTER 1 of detectContours: area < 3000 || area > imageArea * 0.5
AreaRejected(c, imageArea) == c.area < 3000 \/ 2 * c.area > imageArea

\* the boundary check against the 10 px border
TouchesBorder(c, canvasWidth, canvasHeight) ==
    \/ c.x <= 10
    \/ c.y <= 10
    \/ c.x + c.width >= canvasWidth - 10
    \/ c.y + c.height >= canvasHeight - 10

\* FILTER 3 of detectContours: rect.width < 30 || rect.height < 30
TooSmall(c) == c.width < 30 \/ c.height < 30

\* circularity > num / den, with circularity = 4 * PI * area / perimeter^2
CircularityAbove(c, num, den) ==
    4 * PiNum * c.area * den > num * PiDen * c.arcLength * c.arcLength

\* the coin test of detectContours
IsCoinContour(c, imageArea) ==
    /\ CircularityAbove(c, 60, 100)
    /\ c.area > 2500
    /\ 10 * c.area < 4 * imageArea
    /\ 100 * c.width > 65 * c.height
    /\ 100 * c.width < 135 * c.height

NonCoinCount(objects) ==
    Cardinality({k \in 1..Len(objects) : ~objects[k].isCoin})

\* the object pushed for contour i (0-based) of a detection pass
TracedObject(c, i, t, objects, imageArea) ==
    LET edgesList == BuildEdges(c.approx)
        isCoin == IsCoinContour(c, imageArea)
    IN [id |-> ObjectId("obj", t, i),
        name |-> IF isCoin THEN ObjectName("Coin", 0)
                 ELSE ObjectName("Object", NonCoinCount(objects) + 1),
        contour |-> [x |-> Num(c.x), y |-> Num(c.y),
                     width |-> Num(c.width), height |-> Num(c.height)],
        points |-> c.approx,
        edges |-> edgesList,
        area |-> Num(2 * c.area),
        perimeter |-> Num(c.arcLength),
        isCoin |-> isCoin,
        pixelDistance |-> Undefined,
        measurements |-> [edges |-> MeasurementEdges(edgesList),
                          perimeter |-> Null,
                          diameter |-> Undefined]]

\* the contour loop of detectContours, from contour i (1-based here) on
RECURSIVE ContourLoop(_, _, _, _, _, _)
ContourLoop(contours, i, t, objects, canvasWidth, canvasHeight) ==
    IF i > Len(contours) THEN objects
    ELSE LET c == contours[i]
             imageArea == canvasWidth * canvasHeight
             rejected == \/ AreaRejected(c, imageArea)
                         \/ TouchesBorder(c, canvasWidth, canvasHeight)
                         \/ TooSmall(c)
         IN ContourLoop(contours, i + 1, t,
                        IF rejected THEN objects
                        ELSE Append(objects, TracedObject(c, i - 1, t, objects, imageArea)),
                        canvasWidth, canvasHeight)

\* detectContours(imageDataUrl) at clock value t: the objects, or a thrown error
detectContours(img, t) ==
    IF ~img.cvReady \/ ~img.decodes THEN [ok |-> FALSE, objects |-> <<>>]
    ELSE [ok |-> TRUE,
          objects |-> ContourLoop(img.contours, 1, t, <<>>, img.width, img.height)]

\* a contour that passes the four coin filters of detectCoin
CoinCandidate(c, canvasWidth, canvasHeight) ==
    /\ ~(c.area < 3000 \/ 10 * c.area > 4 * canvasWidth * canvasHeight)
    /\ ~(c.width < 40 \/ c.height < 40)
    /\ ~TouchesBorder(c, canvasWidth, canvasHeight)
    /\ CircularityAbove(c, 45, 100)
    /\ 10 * c.width > 6 * c.height
    /\ 10 * c.width < 14 * c.height

\* circularity(c) >= circularity(b): a later contour of equal circularity wins
AtLeastAsCircular(c, b) ==
    c.area * b.arcLength * b.arcLength >= b.area * c.arcLength * c.arcLength

\* circularity(c) > circularity(b)
MoreCircular(c, b) ==
    c.area * b.arcLength * b.arcLength > b.area * c.arcLength * c.arcLength

\* the contour loop of detectCoin: best is the contour holding bestCircularity
\* (none while bestCircularity is 0), coinDiameter the diameter kept so far
RECURSIVE CoinLoop(_, _, _, _, _)
CoinLoop(contours, i, best, canvasWidth, canvasHeight) ==
    IF i > Len(contours) THEN best
    ELSE LET c == contours[i]
             better == /\ CoinCandidate(c, canvasWidth, canvasHeight)
                       /\ IF best.found THEN MoreCircular(c, best.contour)
                          ELSE c.area > 0
         IN CoinLoop(contours, i + 1,
                     IF better
                     THEN [found |-> TRUE, contour |-> c,
                           coinDiameter |-> Num(IF c.width > c.height THEN c.width
                                                ELSE c.height)]
                     ELSE best,
                     canvasWidth, canvasHeight)

\* detectCoin rejecting with 'No coin detected' when no contour qualifies, as the
\* older copies of the library do
detectCoinRejects(img) ==
    LET best == CoinLoop(img.coinContours, 1,
                         [found |-> FALSE, contour |-> ContourSpeck, coinDiameter |-> Null],
                         img.width, img.height)
    IN IF img.cvReady /\ img.decodes /\ ~Falsy(best.coinDiameter)
       THEN CoinResult(TRUE, best.coinDiameter)
       ELSE Rejected

\* detectCoin(imageDataUrl): initOpenCV is awaited outside the try block, so its
\* rejection is detectCoin's; past it the result is always an object
\* {pixelDiameter, found, message}
detectCoin(img) ==
    LET best == CoinLoop(img.coinContours, 1,
                         [found |-> FALSE, contour |-> ContourSpeck, coinDiameter |-> Null],
                         img.width, img.height)
    IN IF ~img.cvReady THEN Rejected
       ELSE IF ~img.decodes THEN CoinResult(FALSE, Null)
       ELSE IF ~Falsy(best.coinDiameter) THEN CoinResult(TRUE, best.coinDiameter)
       ELSE CoinResult(FALSE, Null)

---------------------------------------------------------------------------
\* The other copies of detectContours: src/src/utils/opencvUtils.js ("utils"),
\* src/unnamed/part_000 and src/unnamed/part_002, called with default options

Libraries == {"opencvUtils", "utils", "part_000", "part_002"}

\* the area filter of each copy
AreaRejectedOf(lib, c, imageArea) ==
    CASE lib = "utils" -> c.area < 700 \/ 10 * c.area > 8 * imageArea
      [] lib = "part_000" -> c.area < 500
      [] lib = "part_002" -> c.area < 5000 \/ 2 * c.area > imageArea
      [] OTHER -> AreaRejected(c, imageArea)

\* the border test of each copy: part_002 keeps a 5 px margin, utils and part_000
\* have no such test
TouchesBorderOf(lib, c, canvasWidth, canvasHeight) ==
    CASE lib = "utils" -> FALSE
      [] lib = "part_000" -> FALSE
      [] lib = "part_002" ->
            \/ c.x <= 5
            \/ c.y <= 5
            \/ c.x + c.width >= canvasWidth - 5
            \/ c.y + c.height >= canvasHeight - 5
      [] OTHER -> TouchesBorder(c, canvasWidth, canvasHeight)

\* the minimum-dimension test of each copy
TooSmallOf(lib, c) ==
    CASE lib = "utils" -> FALSE
      [] lib = "part_000" -> FALSE
      [] lib = "part_002" -> c.width < 20 \/ c.height < 20
      [] OTHER -> TooSmall(c)

\* the coin test of each copy (utils sets isCoin: false)
IsCoinContourOf(lib, c, imageArea) ==
    CASE lib = "utils" -> FALSE
      [] lib = "part_000" ->
            CircularityAbove(c, 70, 100) /\ c.area > 1000 /\ c.area < 50000
      [] lib = "part_002" ->
            /\ CircularityAbove(c, 75, 100)
            /\ c.area > 2000
            /\ 10 * c.area < 3 * imageArea
            /\ 10 * c.width > 8 * c.height
            /\ 10 * c.width < 12 * c.height
      [] OTHER -> IsCoinContour(c, imageArea)

\* the four corners utils falls back to when approxPolyDP gives no point
RectCorners(c) ==
    <<Point(c.x, c.y), Point(c.x + c.width, c.y),
      Point(c.x + c.width, c.y + c.height), Point(c.x, c.y + c.height)>>

\* the object each copy pushes for contour i (0-based): part_000 and part_002
\* number ids and names from objectId, which counts every object pushed; utils
\* names from objects.length and sums the edges for the perimeter
TracedObjectOf(lib, c, i, t, objects, imageArea) ==
    IF lib = "opencvUtils" THEN TracedObject(c, i, t, objects, imageArea)
    ELSE LET edgesList == BuildEdges(c.approx)
             isCoin == IsCoinContourOf(lib, c, imageArea)
             objectId == Len(objects) + 1
         IN [id |-> IF lib = "utils" THEN ObjectId("obj", t, i)
                    ELSE ObjectId("", 0, objectId),
             name |-> IF isCoin THEN ObjectName("Coin", 0)
                      ELSE ObjectName("Object", objectId),
             contour |-> [x |-> Num(c.x), y |-> Num(c.y),
                          width |-> Num(c.width), height |-> Num(c.height)],
             points |-> IF lib = "utils" /\ Len(c.approx) = 0 THEN RectCorners(c)
                        ELSE c.approx,
             edges |-> edgesList,
             area |-> Num(2 * c.area),
             perimeter |-> IF lib = "utils"
                           THEN Num(SumPixelLength(edgesList, Len(edgesList)))
                           ELSE Num(c.arcLength),
             isCoin |-> isCoin,
             pixelDistance |-> Null,
             measurements |-> [edges |-> MeasurementEdges(edgesList),
                               perimeter |-> Null,
                               diameter |-> Undefined]]

\* the contour loop of each copy, from contour i (1-based here) on
RECURSIVE ContourLoopOf(_, _, _, _, _, _, _)
ContourLoopOf(lib, contours, i, t, objects, canvasWidth, canvasHeight) ==
    IF i > Len(contours) THEN objects
    ELSE LET c == contours[i]
             imageArea == canvasWidth * canvasHeight
             rejected == \/ AreaRejectedOf(lib, c, imageArea)
                         \/ TouchesBorderOf(lib, c, canvasWidth, canvasHeight)
                         \/ TooSmallOf(lib, c)
         IN ContourLoopOf(lib, contours, i + 1, t,
                          IF rejected THEN objects
                          ELSE Append(objects,
                                      TracedObjectOf(lib, c, i - 1, t, objects,
                                                     imageArea)),
                          canvasWidth, canvasHeight)

\* detectContours(imageDataUrl) of copy lib: the objects, or a thrown error
detectContoursOf(lib, img, t) ==
    IF lib = "opencvUtils" THEN detectContours(img, t)
    ELSE IF ~img.cvReady \/ ~img.decodes THEN [ok |-> FALSE, objects |-> <<>>]
    ELSE [ok |-> TRUE,
          objects |-> ContourLoopOf(lib, img.contours, 1, t, <<>>,
                                    img.width, img.height)]

---------------------------------------------------------------------------
\* Session state

VARIABLES
    variant,          \* which session layer runs: "app" (part_005) or "hook"
    mode,             \* 'select' | 'manual_coin' | 'create_object'
    ppm,              \* CalibrationState.ppm
    coinDiameter,     \* CalibrationState.coinPixelDiameter
    imageSrc,         \* the loaded image (imageDataUrl in the hook)
    objects,          \* the session's object collection
    coinPoints,       \* manual calibration clicks (manualCoinPoints in the hook)
    newObjectPoints,  \* polygon points being collected (creatingPoints in the hook)
    nextObjectId,     \* the App's id counter for manual objects
    created,          \* how many manual objects the session has created
    isProcessing,     \* the processing flag
    tasks,            \* asynchronous operations in flight, with what their closure saw
    crashed,          \* an error escaped a state updater: the tree is unmounted
    alertMessage,     \* the alert() dialog on screen, NoAlert when there is none
    sLib,             \* scaling runs: the library under test
    sOrig,            \* scaling runs: the object as first given
    sObj,             \* scaling runs: the object after the calls made so far
    sPrev,            \* scaling runs: the argument object of the last call
    sPpm,             \* scaling runs: the ppm argument of the last call
    sLast,            \* scaling runs: calls made, and the pixel distance behind sPpm
    dLib,             \* detection runs: the copy whose detectContours is called
    dImage,           \* detection runs: the image handed to the shape analyzer
    dCoin,            \* detection runs: what detectCoin returned
    dObjects,         \* detection runs: what detectContours returned
    dRan,             \* detection runs: the functions that have returned
    gLib,             \* gate runs: the copy whose readiness gate is called
    gNow,             \* gate runs: Date.now(), in ms since the page was opened
    gCv,              \* gate runs: window.cv, the loader's flag, the shared promise
    gCallers,         \* gate runs: each caller's promise, with when it was made
    rOp,              \* operation runs: the detection operation called
    rPc,              \* operation runs: where the call stands
    rLive,            \* operation runs: the native buffers allocated and not deleted
    rBind,            \* operation runs: the buffer each local variable refers to
    rLoop,            \* operation runs: the contours found and the loop index
    rLog              \* operation runs: what the call has done so far

vars == <<variant, mode, ppm, coinDiameter, imageSrc, objects, coinPoints,
          newObjectPoints, nextObjectId, created, isProcessing, tasks, crashed,
          alertMessage, sLib, sOrig, sObj, sPrev, sPpm, sLast,
          dLib, dImage, dCoin, dObjects, dRan, gLib, gNow, gCv, gCallers,
          rOp, rPc, rLive, rBind, rLoop, rLog>>

sessionVars == <<variant, mode, ppm, coinDiameter, imageSrc, objects, coinPoints,
                 newObjectPoints, nextObjectId, created, isProcessing, tasks, crashed,
                 alertMessage>>
scaleVars == <<sLib, sOrig, sObj, sPrev, sPpm, sLast>>
detectVars == <<dLib, dImage, dCoin, dObjects, dRan>>
gateVars == <<gLib, gNow, gCv, gCallers>>
runVars == <<rOp, rPc, rLive, rBind, rLoop, rLog>>
libraryVars == <<scaleVars, detectVars, gateVars, runVars>>

NoAlert == "none"
TooFewPoints == "At least 3 points are needed to create an object"
DetectionFailed == "detection failed"

\* handlers run while the tree is mounted and no alert() dialog blocks the page
Alive == ~crashed /\ alertMessage = NoAlert

\* the values Date.now() returns
Times == 0..MaxNow

\* the points a click can land on
ClickPoints == {Point(0, 0), Point(30, 40)}

Variants == {"app", "hook"}

MapObjects(objs, p) == [i \in 1..Len(objs) |-> applyPPMToObject(objs[i], p)]

NonCoins(objs) == SelectSeq(objs, LAMBDA o : ~o.isCoin)

RemoveAt(seq, i) == SubSeq(seq, 1, i - 1) \o SubSeq(seq, i + 1, Len(seq))

SessionStart(v) ==
    /\ variant = v
    /\ mode = "select"
    /\ ppm = Null
    /\ coinDiameter = Null
    /\ imageSrc = NoImage
    /\ objects = <<>>
    /\ coinPoints = <<>>
    /\ newObjectPoints = <<>>
    /\ nextObjectId = 1
    /\ created = 0
    /\ isProcessing = FALSE
    /\ tasks = <<>>
    /\ crashed = FALSE
    /\ alertMessage = NoAlert

---------------------------------------------------------------------------
\* The App, src/unnamed/part_005

\* useEffect(..., [ppm]): runs after a render in which ppm changed
PpmEffect(oldPpm, newPpm, objs) ==
    IF oldPpm # newPpm /\ ~Falsy(newPpm) /\ Len(objs) > 0
    THEN MapObjects(objs, newPpm)
    ELSE objs

\* the coin reference object both calibration paths build
CoinObject(pixelDistance, t) ==
    [id |-> ObjectId("coin", t, 0),
     name |-> ObjectName("Coin (Reference)", 0),
     contour |-> [x |-> Num(0), y |-> Num(0),
                  width |-> pixelDistance, height |-> pixelDistance],
     points |-> <<>>,
     edges |-> <<>>,
     area |-> IF ToNumber(pixelDistance).t = "num"
              THEN Num((PiNum * ToNumber(pixelDistance).v * ToNumber(pixelDistance).v)
                       \div (2 * PiDen))
              ELSE NaN,
     perimeter |-> Num((COIN_DIAMETER_MM * PiNum) \div (10 * PiDen)),
     isCoin |-> TRUE,
     pixelDistance |-> pixelDistance,
     measurements |-> [edges |-> <<>>,
                       perimeter |-> Num((COIN_DIAMETER_MM * PiNum * 10) \div PiDen),
                       diameter |-> Num(COIN_DIAMETER_MM * 10)]]

\* the updater without its filter: the earlier coin objects stay
RecalibratedKeepingCoins(prevObjects, coinObject, calculatedPpm) ==
    <<coinObject>> \o MapObjects(prevObjects, calculatedPpm)

\* setObjects(prev => [coinObject, ...nonCoins.map(applyPPMToObject)])
Recalibrated(prevObjects, coinObject, calculatedPpm) ==
    <<coinObject>> \o MapObjects(NonCoins(prevObjects), calculatedPpm)

RECURSIVE MaxObjectNum(_, _)
MaxObjectNum(objs, n) ==
    IF n = 0 THEN 0
    ELSE LET rest == MaxObjectNum(objs, n - 1)
         IN IF ~objs[n].isCoin /\ objs[n].name.label = "Object" /\ objs[n].name.n > rest
            THEN objs[n].name.n ELSE rest

\* handleImageUpload up to the start of detection (reader.onload, img.onload)
handleImageUpload(img) ==
    /\ variant = "app" /\ Alive
    /\ imageSrc' = img
    /\ isProcessing' = TRUE
    /\ tasks' = Append(tasks, [kind |-> "upload", img |-> img, seen |-> img,
                               ppm |-> ppm])
    /\ UNCHANGED <<libraryVars, variant, alertMessage, mode, ppm, coinDiameter,
                   objects, coinPoints, newObjectPoints, nextObjectId, created,
                   crashed>>

\* handleImageUpload from the return of detectContours on
handleImageUploadDone(k, t) ==
    /\ variant = "app" /\ Alive
    /\ k \in 1..Len(tasks) /\ tasks[k].kind = "upload"
    /\ LET task == tasks[k]
           detected == detectContours(ImageData(task.img), t)
       IN IF detected.ok
          THEN /\ objects' = IF ~Falsy(task.ppm)
                             THEN MapObjects(detected.objects, task.ppm)
                             ELSE detected.objects
               /\ nextObjectId' =
                      MaxObjectNum(detected.objects, Len(detected.objects)) + 1
               /\ UNCHANGED alertMessage
          ELSE /\ alertMessage' = DetectionFailed
               /\ UNCHANGED <<objects, nextObjectId>>
    /\ UNCHANGED created
    /\ isProcessing' = FALSE
    /\ tasks' = RemoveAt(tasks, k)
    /\ UNCHANGED <<libraryVars, variant, mode, ppm, coinDiameter, imageSrc, coinPoints,
                   newObjectPoints, crashed>>

\* handleAutoCalibrate up to the await of detectCoin
handleAutoCalibrate ==
    /\ variant = "app" /\ Alive
    /\ imageSrc # NoImage
    /\ ~isProcessing
    /\ isProcessing' = TRUE
    /\ tasks' = Append(tasks, [kind |-> "autoCalibrate", img |-> imageSrc,
                               seen |-> imageSrc, ppm |-> Null])
    /\ UNCHANGED <<libraryVars, variant, alertMessage, mode, ppm, coinDiameter,
                   imageSrc, objects, coinPoints, newObjectPoints, nextObjectId,
                   created, crashed>>

\* handleAutoCalibrate from the return of detectCoin on
handleAutoCalibrateDone(k, t) ==
    /\ variant = "app" /\ Alive
    /\ k \in 1..Len(tasks) /\ tasks[k].kind = "autoCalibrate"
    /\ LET pixelDistance == detectCoin(ImageData(tasks[k].img))
           calculatedPpm == calculatePPM(pixelDistance)
           coinObject == CoinObject(pixelDistance, t)
       IN /\ ppm' = calculatedPpm
          /\ coinDiameter' = pixelDistance
          /\ objects' = PpmEffect(ppm, calculatedPpm,
                                  Recalibrated(objects, coinObject, calculatedPpm))
    /\ mode' = "select"
    /\ isProcessing' = FALSE
    /\ tasks' = RemoveAt(tasks, k)
    /\ UNCHANGED <<libraryVars, variant, alertMessage, imageSrc, coinPoints,
                   newObjectPoints, nextObjectId, created, crashed>>

\* handleCanvasClick in mode 'manual_coin'
handleCanvasClickCoin(p, t) ==
    /\ variant = "app" /\ Alive
    /\ imageSrc # NoImage
    /\ mode = "manual_coin"
    /\ LET newPoints == Append(coinPoints, p)
       IN IF Len(newPoints) = 2
          THEN LET pixelDistance == Num(calculatePixelDistance(newPoints[1], newPoints[2]))
                   calculatedPpm == calculatePPM(pixelDistance)
                   coinObject == CoinObject(pixelDistance, t)
               IN /\ ppm' = calculatedPpm
                  /\ coinDiameter' = pixelDistance
                  /\ objects' = PpmEffect(ppm, calculatedPpm,
                                          Recalibrated(objects, coinObject, calculatedPpm))
                  /\ coinPoints' = <<>>
                  /\ mode' = "select"
          ELSE /\ coinPoints' = newPoints
               /\ UNCHANGED <<ppm, coinDiameter, objects, mode>>
    /\ UNCHANGED <<libraryVars, variant, alertMessage, imageSrc, newObjectPoints,
                   nextObjectId, created, isProcessing, tasks, crashed>>

\* the bound on manual creation: the collection and the id counter stay small
CanCreate == Len(objects) < MaxObjects /\ created < MaxCreated

\* finishCreatingObject accepting a polygon of 2 points
finishCreatingObjectFrom2(points, t) ==
    IF Len(points) < 2
    THEN /\ alertMessage' = TooFewPoints
         /\ newObjectPoints' = <<>>
         /\ UNCHANGED <<objects, nextObjectId, created, mode>>
    ELSE /\ objects' = Append(objects, AppManualObject(points, t, nextObjectId,
                                                      Len(NonCoins(objects)) + 1))
         /\ nextObjectId' = nextObjectId + 1
         /\ created' = created + 1
         /\ newObjectPoints' = <<>>
         /\ mode' = "select"
         /\ UNCHANGED alertMessage

\* a finalization that keeps the closing point
KeepClosingPoint(points) == points

\* points.slice(0, -1): the points gathered, without the closing one
WithoutClosingPoint(points) == SubSeq(points, 1, Len(points) - 1)

\* finishCreatingObject(points): the state it leaves behind
finishCreatingObject(points, t) ==
    IF Len(points) < 3
    THEN /\ alertMessage' = TooFewPoints
         /\ newObjectPoints' = <<>>
         /\ UNCHANGED <<objects, nextObjectId, created, mode>>
    ELSE LET nextObjectNumber == Len(NonCoins(objects)) + 1
             newObject == AppManualObject(points, t, nextObjectId, nextObjectNumber)
             finalObject == IF ~Falsy(ppm) THEN applyPPMToObject(newObject, ppm)
                            ELSE newObject
         IN /\ objects' = Append(objects, finalObject)
            /\ nextObjectId' = nextObjectId + 1
            /\ created' = created + 1
            /\ newObjectPoints' = <<>>
            /\ mode' = "select"
            /\ UNCHANGED alertMessage

\* handleCanvasClick in mode 'create_object'
handleCanvasClickCreate(p, t) ==
    /\ variant = "app" /\ Alive
    /\ imageSrc # NoImage
    /\ mode = "create_object"
    /\ LET newPoints == Append(newObjectPoints, p)
           closes == /\ Len(newPoints) > 2
                     /\ calculatePixelDistance(p, newPoints[1]) < 10
       IN IF closes
          THEN /\ Len(newPoints) - 1 >= 3 => CanCreate
               /\ finishCreatingObject(WithoutClosingPoint(newPoints), t)
          ELSE /\ Len(newPoints) <= MaxPoints /\ created < MaxCreated
               /\ newObjectPoints' = newPoints
               /\ UNCHANGED <<objects, nextObjectId, created, mode, alertMessage>>
    /\ UNCHANGED <<libraryVars, variant, ppm, coinDiameter, imageSrc, coinPoints,
                   isProcessing, tasks, crashed>>

\* the Finish button: finishCreatingObject(newObjectPoints, t)
finishButton(t) ==
    /\ variant = "app" /\ Alive
    /\ imageSrc # NoImage
    /\ mode = "create_object"
    /\ Len(newObjectPoints) > 0
    /\ Len(newObjectPoints) >= 3 => CanCreate
    /\ finishCreatingObject(newObjectPoints, t)
    /\ UNCHANGED <<libraryVars, variant, ppm, coinDiameter, imageSrc, coinPoints,
                   isProcessing, tasks, crashed>>

\* the mode buttons: setMode(m); setNewObjectPoints([]); setCoinPoints([])
modeButton(m) ==
    /\ variant = "app" /\ Alive
    /\ imageSrc # NoImage
    /\ mode' = m
    /\ newObjectPoints' = <<>>
    /\ coinPoints' = <<>>
    /\ UNCHANGED <<libraryVars, variant, alertMessage, ppm, coinDiameter,
                   imageSrc, objects, nextObjectId, created, isProcessing, tasks,
                   crashed>>

\* handleDeleteObject(id), confirmed by the user
handleDeleteObject(id) ==
    /\ variant = "app" /\ Alive
    /\ \E k \in 1..Len(objects) : objects[k].id = id
    /\ objects' = SelectSeq(objects, LAMBDA o : o.id # id)
    /\ UNCHANGED <<libraryVars, variant, alertMessage, mode, ppm, coinDiameter,
                   imageSrc, coinPoints, newObjectPoints, nextObjectId, created,
                   isProcessing, tasks, crashed>>

---------------------------------------------------------------------------
\* The hook, src/src/hooks/useDetectionState.jsx, with the components that call it

\* ControlsPanel renders state.coinDiameter.toFixed(1) whenever coinDiameter is
\* truthy: a truthy value that is no number makes the render throw
RenderThrows(cd) == ~Falsy(cd) /\ cd.t # "num"

\* the coin reference object of the hook (withPerimeter: autoDetectCoin alone sets one)
HookCoinObject(pixelDistance, t, withPerimeter) ==
    [id |-> ObjectId("coin", t, 0),
     name |-> ObjectName("Coin (Reference)", 0),
     contour |-> [x |-> Undefined, y |-> Undefined,
                  width |-> Undefined, height |-> Undefined],
     points |-> <<>>,
     edges |-> <<>>,
     area |-> Undefined,
     perimeter |-> IF withPerimeter
                   THEN Num((COIN_DIAMETER_MM * PiNum) \div (10 * PiDen))
                   ELSE Undefined,
     isCoin |-> TRUE,
     pixelDistance |-> pixelDistance,
     measurements |-> [edges |-> <<>>,
                       perimeter |-> Undefined,
                       diameter |-> Num(COIN_DIAMETER_MM * 10)]]

\* ImageUploader.handleChange: the file is being read; the handler holds the
\* autoDetectAll of the render in which the event fired
handleChange(img) ==
    /\ variant = "hook" /\ Alive
    /\ tasks' = Append(tasks, [kind |-> "handleChange", img |-> img,
                               seen |-> imageSrc, ppm |-> Null])
    /\ UNCHANGED <<libraryVars, variant, alertMessage, mode, ppm, coinDiameter,
                   imageSrc, objects, coinPoints, newObjectPoints, nextObjectId,
                   created, isProcessing, crashed>>

\* reader.onload: await setImageFile(...), then autoDetectAll() up to its first await
setImageFile(k) ==
    /\ variant = "hook" /\ Alive
    /\ k \in 1..Len(tasks) /\ tasks[k].kind = "handleChange"
    /\ imageSrc' = tasks[k].img
    /\ IF tasks[k].seen = NoImage
       THEN /\ tasks' = RemoveAt(tasks, k)
            /\ UNCHANGED isProcessing
       ELSE /\ tasks' = [tasks EXCEPT ![k] = [kind |-> "autoDetectAll",
                                              img |-> tasks[k].seen,
                                              seen |-> tasks[k].seen, ppm |-> Null]]
            /\ isProcessing' = TRUE
    /\ UNCHANGED <<libraryVars, variant, alertMessage, mode, ppm, coinDiameter,
                   objects, coinPoints, newObjectPoints, nextObjectId, created,
                   crashed>>

\* the Auto Detect, Auto Detect Coin and Auto Detect Objects buttons, up to the
\* first await: kind is the hook function the button calls
autoDetectStart(kind) ==
    /\ variant = "hook" /\ Alive
    /\ imageSrc # NoImage
    /\ ~isProcessing
    /\ isProcessing' = TRUE
    /\ tasks' = Append(tasks, [kind |-> kind, img |-> imageSrc, seen |-> imageSrc,
                               ppm |-> IF kind = "autoDetectObjects" THEN ppm ELSE Null])
    /\ UNCHANGED <<libraryVars, variant, alertMessage, mode, ppm, coinDiameter,
                   imageSrc, objects, coinPoints, newObjectPoints, nextObjectId,
                   created, crashed>>

\* autoDetectCoin and autoDetectAll from the return of detectCoin on
autoDetectCoinDone(k, t) ==
    /\ variant = "hook" /\ Alive
    /\ k \in 1..Len(tasks) /\ tasks[k].kind \in {"autoDetectCoin", "autoDetectAll"}
    /\ LET pixelDistance == detectCoin(ImageData(tasks[k].img))
           newPpm == calculatePPM(pixelDistance)
           coinObj == HookCoinObject(pixelDistance, t, tasks[k].kind = "autoDetectCoin")
           raw == detectContours(ImageData(tasks[k].img), t)
       IN IF raw.ok
          THEN /\ ppm' = newPpm
               /\ coinDiameter' = pixelDistance
               /\ objects' = <<coinObj>> \o MapObjects(NonCoins(raw.objects), newPpm)
               /\ crashed' = RenderThrows(pixelDistance)
               /\ UNCHANGED alertMessage
          ELSE /\ alertMessage' = DetectionFailed
               /\ UNCHANGED <<ppm, coinDiameter, objects, crashed>>
    /\ isProcessing' = FALSE
    /\ tasks' = RemoveAt(tasks, k)
    /\ UNCHANGED <<libraryVars, variant, mode, imageSrc, coinPoints, newObjectPoints,
                   nextObjectId, created>>

\* raw.find(r => r.isCoin)
FindCoin(raw) ==
    IF \E i \in 1..Len(raw) : raw[i].isCoin
    THEN [found |-> TRUE,
          coin |-> raw[CHOOSE i \in 1..Len(raw) :
                          raw[i].isCoin /\ \A j \in 1..(i - 1) : ~raw[j].isCoin]]
    ELSE [found |-> FALSE, coin |-> Null]

\* autoDetectObjects from the return of detectContours on
autoDetectObjectsDone(k, t) ==
    /\ variant = "hook" /\ Alive
    /\ k \in 1..Len(tasks) /\ tasks[k].kind = "autoDetectObjects"
    /\ LET raw == detectContours(ImageData(tasks[k].img), t)
           coin == FindCoin(raw.objects)
           usedPpm == IF Falsy(tasks[k].ppm) /\ coin.found
                      THEN calculatePPM(coin.coin.pixelDistance)
                      ELSE tasks[k].ppm
           found == [i \in 1..Len(NonCoins(raw.objects)) |->
                        IF ~Falsy(usedPpm)
                        THEN applyPPMToObject(NonCoins(raw.objects)[i], usedPpm)
                        ELSE NonCoins(raw.objects)[i]]
       IN IF raw.ok
          THEN /\ ppm' = IF ~Falsy(usedPpm) THEN usedPpm ELSE ppm
               /\ coinDiameter' = IF coin.found THEN coin.coin.pixelDistance
                                  ELSE coinDiameter
               /\ objects' = IF coin.found
                             THEN <<HookCoinObject(coin.coin.pixelDistance, t, FALSE)>>
                                  \o found
                             ELSE found
               /\ crashed' = RenderThrows(coinDiameter')
               /\ UNCHANGED alertMessage
          ELSE /\ alertMessage' = DetectionFailed
               /\ UNCHANGED <<ppm, coinDiameter, objects, crashed>>
    /\ isProcessing' = FALSE
    /\ tasks' = RemoveAt(tasks, k)
    /\ UNCHANGED <<libraryVars, variant, mode, imageSrc, coinPoints, newObjectPoints,
                   nextObjectId, created>>

\* setManualCoinPoints({x, y}), called by the canvas click in mode 'manual_coin'
setManualCoinPoints(p, t) ==
    /\ variant = "hook" /\ Alive
    /\ imageSrc # NoImage
    /\ mode = "manual_coin"
    /\ LET pts == Append(coinPoints, p)
       IN IF Len(pts) = 2
          THEN LET pixelDistance == Num(calculatePixelDistance(pts[1], pts[2]))
                   newPpm == calculatePPM(pixelDistance)
                   coinObj == HookCoinObject(pixelDistance, t, FALSE)
               IN /\ coinPoints' = <<>>
                  /\ ppm' = newPpm
                  /\ coinDiameter' = pixelDistance
                  /\ objects' = <<coinObj>> \o MapObjects(NonCoins(objects), newPpm)
                  /\ mode' = "select"
          ELSE /\ coinPoints' = pts
               /\ UNCHANGED <<ppm, coinDiameter, objects, mode>>
    /\ UNCHANGED <<libraryVars, variant, alertMessage, imageSrc, newObjectPoints,
                   nextObjectId, created, isProcessing, tasks, crashed>>

\* finishManualObject(points) with an array of points: the state it leaves behind
finishManualObject(pts, t) ==
    IF Len(pts) < 3
    THEN /\ alertMessage' = TooFewPoints
         /\ newObjectPoints' = <<>>
         /\ UNCHANGED <<objects, mode, created>>
    ELSE LET nextIndex == Len(NonCoins(objects)) + 1
             newObj == HookManualObject(pts, t, nextIndex)
             final == IF ~Falsy(ppm) THEN applyPPMToObject(newObj, ppm) ELSE newObj
         IN /\ objects' = Append(objects, final)
            /\ created' = created + 1
            /\ newObjectPoints' = <<>>
            /\ mode' = "select"
            /\ UNCHANGED alertMessage

\* addManualObjectPoint(p), called by the canvas click in mode 'create_object'
addManualObjectPoint(p, t) ==
    /\ variant = "hook" /\ Alive
    /\ imageSrc # NoImage
    /\ mode = "create_object"
    /\ LET pts == Append(newObjectPoints, p)
           closes == /\ Len(pts) > 2
                     /\ calculatePixelDistance(pts[1], p) < 10
       IN IF closes
          THEN /\ Len(pts) - 1 >= 3 => CanCreate
               /\ finishManualObject(WithoutClosingPoint(pts), t)
          ELSE /\ Len(pts) <= MaxPoints /\ created < MaxCreated
               /\ newObjectPoints' = pts
               /\ UNCHANGED <<objects, mode, created, alertMessage>>
    /\ UNCHANGED <<libraryVars, variant, ppm, coinDiameter, imageSrc, coinPoints,
                   nextObjectId, isProcessing, tasks, crashed>>

\* undoLastPoint, behind the Undo Point button
undoLastPoint ==
    /\ variant = "hook" /\ Alive
    /\ Len(newObjectPoints) > 0
    /\ newObjectPoints' = SubSeq(newObjectPoints, 1, Len(newObjectPoints) - 1)
    /\ UNCHANGED <<libraryVars, variant, alertMessage, mode, ppm, coinDiameter,
                   imageSrc, objects, coinPoints, nextObjectId, created,
                   isProcessing, tasks, crashed>>

\* the Finish Object button, onClick={finishManualObject}: points is the click
\* event, pts.length is undefined and pts.map throws inside the state updater
finishObjectButton ==
    /\ variant = "hook" /\ Alive
    /\ Len(newObjectPoints) > 0
    /\ crashed' = TRUE
    /\ UNCHANGED <<libraryVars, variant, alertMessage, mode, ppm, coinDiameter,
                   imageSrc, objects, coinPoints, newObjectPoints, nextObjectId,
                   created, isProcessing, tasks>>

\* deleteObject(id)
deleteObject(id) ==
    /\ variant = "hook" /\ Alive
    /\ \E k \in 1..Len(objects) : objects[k].id = id
    /\ objects' = SelectSeq(objects, LAMBDA o : o.id # id)
    /\ UNCHANGED <<libraryVars, variant, alertMessage, mode, ppm, coinDiameter,
                   imageSrc, coinPoints, newObjectPoints, nextObjectId, created,
                   isProcessing, tasks, crashed>>

\* setMode(m), behind the Manual Coin and Create Object buttons
setMode(m) ==
    /\ variant = "hook" /\ Alive
    /\ mode' = m
    /\ UNCHANGED <<libraryVars, variant, alertMessage, ppm, coinDiameter,
                   imageSrc, objects, coinPoints, newObjectPoints, nextObjectId,
                   created, isProcessing, tasks, crashed>>


\* the user closes the alert() dialog; the handler that raised it has returned
dismissAlert ==
    /\ ~crashed
    /\ alertMessage # NoAlert
    /\ alertMessage' = NoAlert
    /\ UNCHANGED <<libraryVars, variant, mode, ppm, coinDiameter, imageSrc, objects,
                   coinPoints, newObjectPoints, nextObjectId, created, isProcessing,
                   tasks, crashed>>

---------------------------------------------------------------------------
\* The session: either application, from construction on

ScaleIdle ==
    /\ sLib = "opencvUtils" /\ sOrig = Null /\ sObj = Null /\ sPrev = Null
    /\ sPpm = Null /\ sLast = [n |-> 0, pixelDistance |-> Null]

DetectIdle ==
    /\ dLib = "opencvUtils" /\ dImage = ImageData(NoImage) /\ dCoin = Undefined
    /\ dObjects = [ok |-> FALSE, objects |-> <<>>] /\ dRan = {}

\* how many callers a gate run follows
MaxCallers == 2

Callers == 1..MaxCallers

\* no caller has asked for the runtime yet
GateStart ==
    /\ gNow = 0
    /\ gCv = [mat |-> FALSE, isLoaded |-> FALSE, promise |-> "none", start |-> 0,
              timers |-> {}]
    /\ gCallers = [c \in Callers |-> [st |-> "idle", start |-> 0, end |-> 0]]

GateIdle == gLib = "opencvUtils" /\ GateStart

\* the local variables of detectContours and detectCoin that hold a buffer
\* (mat: the one of utils/opencvUtils.js the catch block still sees)
RunVariables ==
    {"src", "bgr", "hsv", "channels", "v_channel", "canny", "thresh", "kernel",
     "contours", "hierarchy", "mat"}

\* a detection operation before its first statement
RunStart ==
    /\ rPc = "call"
    /\ rLive = {}
    /\ rBind = [v \in RunVariables |-> "null"]
    /\ rLog = [gate |-> "none", gateCalls |-> 0, decoded |-> FALSE,
               processed |-> FALSE, error |-> "none", result |-> "none"]

RunIdle == rOp = "detectContours" /\ rLoop = [kinds |-> <<>>, i |-> 0] /\ RunStart

Init ==
    /\ \E v \in Variants : SessionStart(v)
    /\ ScaleIdle
    /\ DetectIdle
    /\ GateIdle
    /\ RunIdle

\* at most MaxTasks asynchronous handlers are in flight at a time
Next ==
    \/ \E img \in Images : Len(tasks) < MaxTasks /\ handleImageUpload(img)
    \/ \E k \in 1..MaxTasks, t \in Times : handleImageUploadDone(k, t)
    \/ Len(tasks) < MaxTasks /\ handleAutoCalibrate
    \/ \E k \in 1..MaxTasks, t \in Times : handleAutoCalibrateDone(k, t)
    \/ \E p \in ClickPoints, t \in Times : handleCanvasClickCoin(p, t)
    \/ \E p \in ClickPoints, t \in Times : handleCanvasClickCreate(p, t)
    \/ \E t \in Times : finishButton(t)
    \/ \E m \in {"select", "manual_coin", "create_object"} : modeButton(m)
    \/ \E k \in 1..MaxObjects + 1 : k <= Len(objects) /\ handleDeleteObject(objects[k].id)
    \/ \E img \in Images : Len(tasks) < MaxTasks /\ handleChange(img)
    \/ \E k \in 1..MaxTasks : setImageFile(k)
    \/ \E kind \in {"autoDetectAll", "autoDetectCoin", "autoDetectObjects"} :
           Len(tasks) < MaxTasks /\ autoDetectStart(kind)
    \/ \E k \in 1..MaxTasks, t \in Times : autoDetectCoinDone(k, t)
    \/ \E k \in 1..MaxTasks, t \in Times : autoDetectObjectsDone(k, t)
    \/ \E p \in ClickPoints, t \in Times : setManualCoinPoints(p, t)
    \/ \E p \in ClickPoints, t \in Times : addManualObjectPoint(p, t)
    \/ undoLastPoint
    \/ finishObjectButton
    \/ \E k \in 1..MaxObjects + 1 : k <= Len(objects) /\ deleteObject(objects[k].id)
    \/ \E m \in {"manual_coin", "create_object"} : setMode(m)
    \/ dismissAlert

Spec == Init /\ [][Next]_vars

---------------------------------------------------------------------------
\* Overlap runs: the uploads and the detection buttons alone, with up to
\* MaxOverlap asynchronous handlers in flight at a time

MaxOverlap == 2

OverlapNext ==
    \/ \E img \in Images : Len(tasks) < MaxOverlap /\ handleImageUpload(img)
    \/ \E k \in 1..MaxOverlap, t \in Times : handleImageUploadDone(k, t)
    \/ Len(tasks) < MaxOverlap /\ handleAutoCalibrate
    \/ \E k \in 1..MaxOverlap, t \in Times : handleAutoCalibrateDone(k, t)
    \/ \E img \in Images : Len(tasks) < MaxOverlap /\ handleChange(img)
    \/ \E k \in 1..MaxOverlap : setImageFile(k)
    \/ \E kind \in {"autoDetectAll", "autoDetectCoin", "autoDetectObjects"} :
           Len(tasks) < MaxOverlap /\ autoDetectStart(kind)
    \/ \E k \in 1..MaxOverlap, t \in Times : autoDetectCoinDone(k, t)
    \/ \E k \in 1..MaxOverlap, t \in Times : autoDetectObjectsDone(k, t)

OverlapSpec == Init /\ [][OverlapNext]_vars

---------------------------------------------------------------------------
\* Scaling runs: applyPPMToObject and calculatePPM of either library, called on
\* their own with arguments drawn from the sets below

MaxApplies == 2

\* calculatePPM(pixelDiameter), src/src/utils/opencvUtils.js
calculatePPMUtils(pixelDiameter) ==
    IF Falsy(pixelDiameter) \/ LeqZero(pixelDiameter) THEN Null
    ELSE calculatePPM(pixelDiameter)

ScaleLibs == {"opencvUtils", "utils"}

Triangle == <<Point(0, 0), Point(30, 0), Point(30, 40)>>
Collapsed == <<Point(30, 40), Point(30, 40), Point(30, 40)>>

ScaleObjects ==
    {AppManualObject(Triangle, 0, 1, 1),
     HookManualObject(Triangle, 0, 1),
     AppManualObject(Collapsed, 0, 1, 1),
     TracedObject(ContourBar, 0, 0, <<>>, 250000)}

ScalePpms == {Null, Undefined, NaN, Num(0), Num(-265), Num(265), Num(700), Num(1000)}

ScaleDistances == {0, 7, 53, 104}

ScaleInit ==
    /\ sLib \in ScaleLibs
    /\ sOrig \in ScaleObjects
    /\ sObj = sOrig
    /\ sPrev = sOrig
    /\ sPpm = Null
    /\ sLast = [n |-> 0, pixelDistance |-> Null]
    /\ SessionStart("app")
    /\ DetectIdle
    /\ GateIdle
    /\ RunIdle

\* one call applyPPMToObject(sObj, p) of the library under test
ScaleCall(p, pixelDistance) ==
    /\ sLast.n < MaxApplies
    /\ sPrev' = sObj
    /\ sObj' = CASE sLib = "utils" -> applyPPMToObjectUtils(sObj, p)
                 [] sLib \in {"part_000", "part_002"} -> applyPPMToObjectOlder(sObj, p)
                 [] OTHER -> applyPPMToObject(sObj, p)
    /\ sPpm' = p
    /\ sLast' = [n |-> sLast.n + 1, pixelDistance |-> pixelDistance]
    /\ UNCHANGED <<sLib, sOrig, sessionVars, detectVars, gateVars, runVars>>

\* applyPPMToObject(sObj, p) with a ppm given directly
ScaleApply(p) == ScaleCall(p, Null)

\* applyPPMToObject(sObj, calculatePPM(d)): calibrate on a pixel distance, then scale
ScaleCalibrate(d) ==
    ScaleCall(IF sLib = "utils" THEN calculatePPMUtils(Num(d)) ELSE calculatePPM(Num(d)),
              Num(d))

ScaleNext ==
    \/ \E p \in ScalePpms : ScaleApply(p)
    \/ \E d \in ScaleDistances : ScaleCalibrate(d)

ScaleSpec == ScaleInit /\ [][ScaleNext]_vars

\* the same runs on the three copies of applyPPMToObject that take (obj, ppm) and
\* divide obj.perimeter unguarded
CopyLibs == {"opencvUtils", "part_000", "part_002"}

CopyInit ==
    /\ sLib \in CopyLibs
    /\ sOrig \in ScaleObjects
    /\ sObj = sOrig
    /\ sPrev = sOrig
    /\ sPpm = Null
    /\ sLast = [n |-> 0, pixelDistance |-> Null]
    /\ SessionStart("app")
    /\ DetectIdle
    /\ GateIdle
    /\ RunIdle

CopySpec == CopyInit /\ [][ScaleNext]_vars

---------------------------------------------------------------------------
\* Detection runs: detectCoin and detectContours called on their own, on images
\* whose contour lists are drawn from the pool below

MaxContours == 2

\* passes the looser coin test of detectCoin, fails the coin test of detectContours
ContourOval ==
    Contour(6000, 200, 300, 100, 75, 300,
            <<Point(250, 300), Point(300, 337), Point(250, 375), Point(200, 337)>>)

\* an ellipse whose bounding box is 65 x 100: aspect ratio exactly 0.65
ContourEllipse ==
    Contour(5105, 200, 200, 65, 100, 263,
            <<Point(232, 200), Point(265, 250), Point(232, 300), Point(200, 250)>>)

\* a contour of area exactly 3000
ContourMin ==
    Contour(3000, 100, 100, 60, 50, 220,
            <<Point(100, 100), Point(160, 100), Point(160, 150), Point(100, 150)>>)

\* in a 100 x 100 image: a contour covering more than half of it, and one inside
\* the area band
ContourHalf ==
    Contour(5100, 12, 12, 75, 75, 270,
            <<Point(12, 12), Point(87, 12), Point(87, 87), Point(12, 87)>>)
ContourInner ==
    Contour(3200, 20, 20, 60, 60, 210,
            <<Point(20, 20), Point(80, 20), Point(80, 80), Point(20, 80)>>)

\* a smaller disc of the same circularity as ContourCoin: 5024 / 264^2 = 7850 / 330^2
ContourCoinSmall ==
    Contour(5024, 300, 300, 80, 80, 264,
            <<Point(340, 300), Point(380, 340), Point(340, 380), Point(300, 340)>>)

ContourPool ==
    {ContourCoin, ContourCoinWide, ContourOval, ContourBar, ContourSpeck, ContourEdge,
     ContourEllipse, ContourMin, ContourCoinSmall}

ContourLists ==
    UNION {[1..n -> ContourPool] : n \in 0..MaxContours}

DetectImages ==
    {Image("canvas", TRUE, TRUE, 500, 500, cs, cs) : cs \in ContourLists}
        \cup {Image("small", TRUE, TRUE, 100, 100, <<ContourHalf, ContourInner>>,
                     <<ContourHalf, ContourInner>>)}
        \cup {ImageData("undecodable"), ImageData("noOpenCV")}

DetectInit ==
    /\ dLib \in Libraries
    /\ dImage \in DetectImages
    /\ dCoin = Undefined
    /\ dObjects = [ok |-> FALSE, objects |-> <<>>]
    /\ dRan = {}
    /\ SessionStart("app")
    /\ ScaleIdle
    /\ GateIdle
    /\ RunIdle

\* await detectCoin(dImage)
DetectCoinRun ==
    /\ "detectCoin" \notin dRan
    /\ dCoin' = detectCoin(dImage)
    /\ dRan' = dRan \cup {"detectCoin"}
    /\ UNCHANGED <<dLib, dImage, dObjects, sessionVars, scaleVars, gateVars, runVars>>

\* await detectContours(dImage), of the copy under test
DetectContoursRun(t) ==
    /\ "detectContours" \notin dRan
    /\ dObjects' = detectContoursOf(dLib, dImage, t)
    /\ dRan' = dRan \cup {"detectContours"}
    /\ UNCHANGED <<dLib, dImage, dCoin, sessionVars, scaleVars, gateVars, runVars>>

DetectNext ==
    \/ DetectCoinRun
    \/ \E t \in Times : DetectContoursRun(t)

DetectSpec == DetectInit /\ [][DetectNext]_vars

---------------------------------------------------------------------------
\* Polygon runs: the session from the moment 'Create Object' is chosen on a loaded,
\* uncalibrated image, with the clicks drawn from a finer grid of points

\* (0,0)-(10,0) is exactly 10 px: not a closing click; (2,1) and (6,7) are closer
PolyClicks ==
    {Point(0, 0), Point(10, 0), Point(10, 10), Point(0, 10), Point(2, 1), Point(6, 7)}

\* the point lists the click handlers can be holding: from the third point on, a
\* point within 10 px of the first would have closed the polygon instead
PolyGathered ==
    {pts \in UNION {[1..n -> PolyClicks] : n \in 0..(MaxPoints + 1)} :
        \A i \in 3..Len(pts) : calculatePixelDistance(pts[i], pts[1]) >= 10}

\* the image was loaded (in the App its detection pass has returned), the mode
\* button was pressed and the points were clicked
PolyInit ==
    /\ variant \in Variants
    /\ mode = "create_object"
    /\ ppm = Null
    /\ coinDiameter = Null
    /\ imageSrc = "imgB"
    /\ objects = IF variant = "app" THEN detectContours(ImageData("imgB"), 0).objects
                 ELSE <<>>
    /\ coinPoints = <<>>
    /\ newObjectPoints \in PolyGathered
    /\ nextObjectId = IF variant = "app"
                      THEN MaxObjectNum(detectContours(ImageData("imgB"), 0).objects,
                                        Len(detectContours(ImageData("imgB"), 0).objects)) + 1
                      ELSE 1
    /\ created = 0
    /\ isProcessing = FALSE
    /\ tasks = <<>>
    /\ crashed = FALSE
    /\ alertMessage = NoAlert
    /\ ScaleIdle
    /\ DetectIdle
    /\ GateIdle
    /\ RunIdle

PolyNext ==
    \/ \E p \in PolyClicks, t \in Times : handleCanvasClickCreate(p, t)
    \/ \E t \in Times : finishButton(t)
    \/ \E p \in PolyClicks, t \in Times : addManualObjectPoint(p, t)
    \/ undoLastPoint
    \/ finishObjectButton
    \/ dismissAlert

PolySpec == PolyInit /\ [][PolyNext]_vars

---------------------------------------------------------------------------
\* Id runs: the session after the detection pass on an image with one non-coin
\* object and after one polygon was built by hand, with a clock that may or may
\* not have advanced when the next handler reads it

IdTimes == 0..(MaxNow + 1)

\* the collection: 'Object 1' traced at clock value 0, then the triangle
IdObjects(v) ==
    LET traced == detectContours(ImageData("imgB"), 0).objects
    IN IF v = "app"
       THEN Append(traced, AppManualObject(Triangle, 0, 2, 2))
       ELSE Append(traced, HookManualObject(Triangle, 0, 2))

IdInit ==
    /\ variant \in Variants
    /\ mode = "select"
    /\ ppm = Null
    /\ coinDiameter = Null
    /\ imageSrc = "imgB"
    /\ objects = IdObjects(variant)
    /\ coinPoints = <<>>
    /\ newObjectPoints = <<>>
    /\ nextObjectId = IF variant = "app" THEN 3 ELSE 1
    /\ created = 0
    /\ isProcessing = FALSE
    /\ tasks = <<>>
    /\ crashed = FALSE
    /\ alertMessage = NoAlert
    /\ ScaleIdle
    /\ DetectIdle
    /\ GateIdle
    /\ RunIdle

IdNext ==
    \/ \E m \in {"select", "create_object"} : modeButton(m)
    \/ \E p \in ClickPoints, t \in IdTimes : handleCanvasClickCreate(p, t)
    \/ \E t \in IdTimes : finishButton(t)
    \/ \E k \in 1..MaxObjects + 1 : k <= Len(objects) /\ handleDeleteObject(objects[k].id)
    \/ setMode("create_object")
    \/ \E p \in ClickPoints, t \in IdTimes : addManualObjectPoint(p, t)
    \/ undoLastPoint
    \/ \E k \in 1..MaxObjects + 1 : k <= Len(objects) /\ deleteObject(objects[k].id)
    \/ dismissAlert

IdSpec == IdInit /\ [][IdNext]_vars

---------------------------------------------------------------------------
\* Gate runs: callers of one readiness gate while the page loads. The three gates
\* are initOpenCV of src/src/opencvUtils.js, loadOpenCV of utils/opencvLoader.js
\* and initOpenCV of utils/opencvUtils.js. window.cv is taken to be absent or the
\* initialized module (cv.Mat defined).

GateLibs == {"opencvUtils", "loader", "utils"}

\* the 30000 ms of every gate
GateTimeout == 30000

\* the clock advances in steps of 10 s
GateTick == GateTimeout \div 3

\* how far the clock runs, in steps
MaxGateTicks == 5

\* the caller's promise settled as st at the current time
Settled(caller, st) == [caller EXCEPT !.st = st, !.end = gNow]

\* a pending setTimeout: the call that scheduled it (0: the shared promise of
\* utils/opencvUtils.js) and what it runs, the next poll or the 30 s timeout
Timer(owner, kind) == [of |-> owner, kind |-> kind]

\* every caller holding the shared promise sees it settle as st
SettleShared(st) ==
    [c \in Callers |-> IF gCallers[c].st = "waiting" THEN Settled(gCallers[c], st)
                       ELSE gCallers[c]]

\* tryReady of opencvUtils.js has something to settle for caller c
PollDue(c) ==
    /\ gCallers[c].st = "waiting"
    /\ gCv.mat \/ gNow - gCallers[c].start > GateTimeout

\* a setTimeout(..., 30000) of caller c (loader) has come due
TimerDue(c) ==
    /\ gCallers[c].st = "waiting"
    /\ gNow - gCallers[c].start >= GateTimeout

\* the shared promise of utils/opencvUtils.js has a poll or its timer due
SharedDue ==
    /\ gCv.promise = "pending"
    /\ gCv.mat \/ gNow - gCv.start >= GateTimeout

\* caller c calls the gate
GateCall(c) ==
    /\ gCallers[c].st = "idle"
    /\ \A b \in Callers : b < c => gCallers[b].st # "idle"
    /\ LET made == [st |-> "waiting", start |-> gNow, end |-> 0]
           done == [st |-> "resolved", start |-> gNow, end |-> gNow]
       IN CASE gLib = "opencvUtils" ->
                 /\ gCallers' = [gCallers EXCEPT ![c] = IF gCv.mat THEN done ELSE made]
                 /\ gCv' = [gCv EXCEPT
                               !.timers = IF gCv.mat THEN @ ELSE @ \cup {Timer(c, "poll")}]
            [] gLib = "loader" ->
                 /\ gCallers' = [gCallers EXCEPT
                                    ![c] = IF gCv.isLoaded \/ gCv.mat THEN done ELSE made]
                 /\ gCv' = [gCv EXCEPT
                               !.isLoaded = gCv.isLoaded \/ gCv.mat,
                               !.timers = IF gCv.isLoaded \/ gCv.mat THEN @
                                          ELSE @ \cup {Timer(c, "timeout")}]
            [] gLib = "utils" ->
                 IF gCv.promise # "none"
                 THEN /\ gCallers' = [gCallers EXCEPT
                                         ![c] = IF gCv.promise = "pending" THEN made
                                                ELSE Settled(made, gCv.promise)]
                      /\ UNCHANGED gCv
                 ELSE /\ gCallers' = [gCallers EXCEPT
                                         ![c] = IF gCv.mat THEN done ELSE made]
                      /\ gCv' = [gCv EXCEPT
                                    !.promise = IF gCv.mat THEN "resolved" ELSE "pending",
                                    !.start = gNow,
                                    !.timers = IF gCv.mat THEN @
                                               ELSE {Timer(0, "poll"), Timer(0, "timeout")}]
    /\ UNCHANGED <<gLib, gNow, sessionVars, scaleVars, detectVars, runVars>>

\* the runtime of the page's script finishes initializing: window.cv.Mat exists
RuntimeReady ==
    /\ ~gCv.mat
    /\ gCv' = [gCv EXCEPT !.mat = TRUE]
    /\ UNCHANGED <<gLib, gNow, gCallers, sessionVars, scaleVars, detectVars, runVars>>

\* tryReady of caller c (opencvUtils.js): resolve, or reject after 30 s
GatePoll(c) ==
    /\ gLib = "opencvUtils"
    /\ PollDue(c)
    /\ gCallers' = [gCallers EXCEPT
                       ![c] = Settled(@, IF gCv.mat THEN "resolved" ELSE "rejected")]
    /\ gCv' = [gCv EXCEPT !.timers = @ \ {Timer(c, "poll")}]
    /\ UNCHANGED <<gLib, gNow, sessionVars, scaleVars, detectVars, runVars>>

\* the script caller c appended has loaded and its runtime calls the
\* onRuntimeInitialized handler c installed (loader)
LoaderInitialized(c) ==
    /\ gLib = "loader"
    /\ gCallers[c].st = "waiting"
    /\ gCallers' = [gCallers EXCEPT ![c] = Settled(@, "resolved")]
    /\ gCv' = [gCv EXCEPT !.mat = TRUE, !.isLoaded = TRUE,
                          !.timers = @ \ {Timer(c, "timeout")}]
    /\ UNCHANGED <<gLib, gNow, sessionVars, scaleVars, detectVars, runVars>>

\* the 30 s timer of caller c fires (loader)
LoaderTimeout(c) ==
    /\ gLib = "loader"
    /\ TimerDue(c)
    /\ gCallers' = [gCallers EXCEPT ![c] = Settled(@, "rejected")]
    /\ gCv' = [gCv EXCEPT !.timers = @ \ {Timer(c, "timeout")}]
    /\ UNCHANGED <<gLib, gNow, sessionVars, scaleVars, detectVars, runVars>>

\* script.onerror of the script caller c appended (loader)
LoaderScriptError(c) ==
    /\ gLib = "loader"
    /\ gCallers[c].st = "waiting"
    /\ ~gCv.mat
    /\ gCallers' = [gCallers EXCEPT ![c] = Settled(@, "rejected")]
    /\ gCv' = [gCv EXCEPT !.timers = @ \ {Timer(c, "timeout")}]
    /\ UNCHANGED <<gLib, gNow, sessionVars, scaleVars, detectVars, runVars>>

\* poll of the shared promise finds cv.Mat: onReady resolves it (utils)
SharedReady ==
    /\ gLib = "utils"
    /\ gCv.promise = "pending"
    /\ gCv.mat
    /\ gCv' = [gCv EXCEPT !.promise = "resolved", !.timers = {}]
    /\ gCallers' = SettleShared("resolved")
    /\ UNCHANGED <<gLib, gNow, sessionVars, scaleVars, detectVars, runVars>>

\* the timer of the shared promise fires, or the injected script fails to load
\* (utils): reject is all either callback does, poll goes on rescheduling itself
SharedRejected ==
    /\ gLib = "utils"
    /\ gCv.promise = "pending"
    /\ gNow - gCv.start >= GateTimeout \/ ~gCv.mat
    /\ gCv' = [gCv EXCEPT
                  !.promise = "rejected",
                  !.timers = IF gNow - gCv.start >= GateTimeout
                             THEN @ \ {Timer(0, "timeout")} ELSE @]
    /\ gCallers' = SettleShared("rejected")
    /\ UNCHANGED <<gLib, gNow, sessionVars, scaleVars, detectVars, runVars>>

\* after the rejection (utils): the 30 s timer left pending by a script error
\* fires, or poll finds cv.Mat and onReady clears the timer and ends the polling
SharedLeftover ==
    /\ gLib = "utils"
    /\ gCv.promise = "rejected"
    /\ gCv.timers # {}
    /\ IF gCv.mat
       THEN gCv' = [gCv EXCEPT !.timers = {}]
       ELSE /\ Timer(0, "timeout") \in gCv.timers
            /\ gNow - gCv.start >= GateTimeout
            /\ gCv' = [gCv EXCEPT !.timers = @ \ {Timer(0, "timeout")}]
    /\ UNCHANGED <<gLib, gNow, gCallers, sessionVars, scaleVars, detectVars, runVars>>

\* 10 s pass; whatever poll or timer is due runs first
GateClock ==
    /\ gNow < MaxGateTicks * GateTick
    /\ gLib = "opencvUtils" => \A c \in Callers : ~PollDue(c)
    /\ gLib = "loader" => \A c \in Callers : ~TimerDue(c)
    /\ gLib = "utils" => ~SharedDue
    /\ gNow' = gNow + GateTick
    /\ UNCHANGED <<gLib, gCv, gCallers, sessionVars, scaleVars, detectVars, runVars>>

GateInit ==
    /\ gLib \in GateLibs
    /\ GateStart
    /\ SessionStart("app")
    /\ ScaleIdle
    /\ DetectIdle
    /\ RunIdle

GateNext ==
    \/ \E c \in Callers : GateCall(c)
    \/ RuntimeReady
    \/ \E c \in Callers : GatePoll(c)
    \/ \E c \in Callers : LoaderInitialized(c)
    \/ \E c \in Callers : LoaderTimeout(c)
    \/ \E c \in Callers : LoaderScriptError(c)
    \/ SharedReady
    \/ SharedRejected
    \/ SharedLeftover
    \/ GateClock

GateSpec == GateInit /\ [][GateNext]_vars

---------------------------------------------------------------------------
\* Operation runs: one call of a detection operation, statement block by statement
\* block, with the native buffers it holds. The operations are detectContours and
\* detectCoin of src/src/opencvUtils.js and detectContours of
\* src/src/utils/opencvUtils.js with its default options. An OpenCV call that
\* throws does so as the first call of its block.

RunOps == {"detectContours", "detectCoin", "utilsDetectContours"}

\* how many contours cv.findContours returns in an operation run
MaxRunContours == 2

\* what the loop does with a contour: a filter drops it, or it is analysed
RunKinds == UNION {[1..n -> {"dropped", "kept"}] : n \in 0..MaxRunContours}

IsUtilsRun == rOp = "utilsDetectContours"

\* new buffers, each held by the local variable of the same name
Allocated(names) ==
    /\ rLive' = rLive \cup names
    /\ rBind' = [v \in RunVariables |-> IF v \in names THEN v ELSE rBind[v]]

\* the checks `if (src) src.delete()` ... `if (hierarchy) hierarchy.delete()`:
\* the buffers the variables named in the finally block refer to
FinallyDeletes ==
    {rBind[v] : v \in {"src", "bgr", "hsv", "v_channel", "canny", "thresh",
                        "kernel", "contours", "hierarchy"}}

\* the gate rejected as caught by the operation's own try block
GateFailureCaught(op) ==
    IF op = "detectCoin" THEN [pc |-> "returned", error |-> "processing"]
    ELSE [pc |-> "threw", error |-> "processing"]

\* `const cv = await initOpenCV()` stands before the try block: a rejection of
\* the gate leaves the operation as it is
GateFailure(op) == [pc |-> "threw", error |-> "init"]

\* const cv = await initOpenCV()
RunAwaitGate ==
    /\ rPc = "call"
    /\ rPc' = "gate"
    /\ rLog' = [rLog EXCEPT !.gate = "pending", !.gateCalls = @ + 1]
    /\ UNCHANGED <<rOp, rLive, rBind, rLoop, sessionVars, scaleVars, detectVars,
                   gateVars>>

\* the gate resolves
RunGateReady ==
    /\ rPc = "gate"
    /\ rPc' = "load"
    /\ rLog' = [rLog EXCEPT !.gate = "ready"]
    /\ UNCHANGED <<rOp, rLive, rBind, rLoop, sessionVars, scaleVars, detectVars,
                   gateVars>>

\* the gate rejects
RunGateFailed ==
    /\ rPc = "gate"
    /\ rPc' = GateFailure(rOp).pc
    /\ rLog' = [rLog EXCEPT !.gate = "failed", !.error = GateFailure(rOp).error]
    /\ UNCHANGED <<rOp, rLive, rBind, rLoop, sessionVars, scaleVars, detectVars,
                   gateVars>>

\* loadImageToMat resolves: src (mat in utils) holds the decoded image
RunLoadImage ==
    /\ rPc = "load"
    /\ rPc' = "init"
    /\ Allocated(IF IsUtilsRun THEN {"mat"} ELSE {"src"})
    /\ rLog' = [rLog EXCEPT !.decoded = TRUE]
    /\ UNCHANGED <<rOp, rLoop, sessionVars, scaleVars, detectVars, gateVars>>

\* loadImageToMat rejects: inside the try block of opencvUtils.js, before the
\* one of utils
RunLoadFailed ==
    /\ rPc = "load"
    /\ rPc' = IF IsUtilsRun THEN "threw" ELSE "finally"
    /\ rLog' = [rLog EXCEPT
                   !.error = IF IsUtilsRun THEN "load" ELSE "processing",
                   !.result = IF rOp = "detectCoin" THEN "return" ELSE "throw"]
    /\ UNCHANGED <<rOp, rLive, rBind, rLoop, sessionVars, scaleVars, detectVars,
                   gateVars>>

\* the Mats made before the preprocessing (utils: mask)
RunAllocate ==
    /\ rPc = "init"
    /\ rPc' = "split"
    /\ IF IsUtilsRun
       THEN rLive' = rLive \cup {"mask"} /\ UNCHANGED rBind
       ELSE /\ rLive' = rLive \cup {"bgr", "hsv", "channels", "new cv.Mat()",
                                     "canny", "thresh"}
            /\ rBind' = [rBind EXCEPT !["bgr"] = "bgr", !["hsv"] = "hsv",
                                      !["channels"] = "channels",
                                      !["v_channel"] = "new cv.Mat()",
                                      !["canny"] = "canny", !["thresh"] = "thresh"]
    /\ UNCHANGED <<rOp, rLoop, rLog, sessionVars, scaleVars, detectVars, gateVars>>

\* cvtColor, split, v_channel = channels.get(2) (utils: gray and clahe made and
\* deleted, grayEn made)
RunSplit ==
    /\ rPc = "split"
    /\ rPc' = "morph"
    /\ IF IsUtilsRun
       THEN rLive' = rLive \cup {"grayEn"} /\ UNCHANGED rBind
       ELSE /\ rLive' = rLive \cup {"channels.get(2)"}
            /\ rBind' = [rBind EXCEPT !["v_channel"] = "channels.get(2)"]
    /\ rLog' = [rLog EXCEPT !.processed = TRUE]
    /\ UNCHANGED <<rOp, rLoop, sessionVars, scaleVars, detectVars, gateVars>>

\* Canny, kernel = getStructuringElement, dilate, morphologyEx (utils: blurred,
\* edges, k and kernel made and deleted, grayEn deleted)
RunMorph ==
    /\ rPc = "morph"
    /\ rPc' = "find"
    /\ IF IsUtilsRun
       THEN rLive' = rLive \ {"grayEn"} /\ UNCHANGED rBind
       ELSE Allocated({"kernel"})
    /\ UNCHANGED <<rOp, rLoop, rLog, sessionVars, scaleVars, detectVars, gateVars>>

\* contours = new cv.MatVector(); hierarchy = new cv.Mat(); cv.findContours
RunFind ==
    /\ rPc = "find"
    /\ rPc' = "loop"
    /\ IF IsUtilsRun
       THEN rLive' = rLive \cup {"contours", "hierarchy"} /\ UNCHANGED rBind
       ELSE Allocated({"contours", "hierarchy"})
    /\ UNCHANGED <<rOp, rLoop, rLog, sessionVars, scaleVars, detectVars, gateVars>>

\* const contour = contours.get(i)
RunContourGet ==
    /\ rPc = "loop"
    /\ rLoop.i < Len(rLoop.kinds)
    /\ rPc' = "contour"
    /\ rLive' = rLive \cup {"contour"}
    /\ UNCHANGED <<rOp, rBind, rLoop, rLog, sessionVars, scaleVars, detectVars,
                   gateVars>>

\* a filter rejects the contour: contour.delete(); continue
RunContourDrop ==
    /\ rPc = "contour"
    /\ rLoop.kinds[rLoop.i + 1] = "dropped"
    /\ rPc' = "loop"
    /\ rLive' = rLive \ {"contour"}
    /\ rLoop' = [rLoop EXCEPT !.i = @ + 1]
    /\ UNCHANGED <<rOp, rBind, rLog, sessionVars, scaleVars, detectVars, gateVars>>

\* const approx = new cv.Mat(): detectContours, of either file
RunContourApprox ==
    /\ rPc = "contour"
    /\ rOp # "detectCoin"
    /\ rLoop.kinds[rLoop.i + 1] = "kept"
    /\ rPc' = "approx"
    /\ rLive' = rLive \cup {"approx"}
    /\ UNCHANGED <<rOp, rBind, rLoop, rLog, sessionVars, scaleVars, detectVars,
                   gateVars>>

\* the end of the loop body: approx.delete(); contour.delete()
RunContourDone ==
    /\ \/ rPc = "approx"
       \/ rPc = "contour" /\ rOp = "detectCoin" /\ rLoop.kinds[rLoop.i + 1] = "kept"
    /\ rPc' = "loop"
    /\ rLive' = rLive \ {"approx", "contour"}
    /\ rLoop' = [rLoop EXCEPT !.i = @ + 1]
    /\ UNCHANGED <<rOp, rBind, rLog, sessionVars, scaleVars, detectVars, gateVars>>

\* the loop is over: return (utils: mat, mask, contours, hierarchy deleted first)
RunLoopEnd ==
    /\ rPc = "loop"
    /\ rLoop.i = Len(rLoop.kinds)
    /\ rPc' = IF IsUtilsRun THEN "returned" ELSE "finally"
    /\ rLive' = IF IsUtilsRun THEN rLive \ {"mat", "mask", "contours", "hierarchy"}
                ELSE rLive
    /\ rLog' = [rLog EXCEPT !.result = "return"]
    /\ UNCHANGED <<rOp, rBind, rLoop, sessionVars, scaleVars, detectVars, gateVars>>

\* an OpenCV call inside the try block throws: the catch block (detectContours
\* rethrows, detectCoin returns found: false, utils deletes mat and rethrows)
RunThrow ==
    /\ rPc \in {"init", "split", "morph", "find", "loop", "contour", "approx"}
    /\ rPc' = IF IsUtilsRun THEN "threw" ELSE "finally"
    /\ rLive' = IF IsUtilsRun THEN rLive \ {"mat"} ELSE rLive
    /\ rLog' = [rLog EXCEPT
                   !.error = "processing",
                   !.result = IF rOp = "detectCoin" THEN "return" ELSE "throw"]
    /\ UNCHANGED <<rOp, rBind, rLoop, sessionVars, scaleVars, detectVars, gateVars>>

\* the finally block of detectContours and detectCoin
RunFinally ==
    /\ rPc = "finally"
    /\ rPc' = IF rLog.result = "return" THEN "returned" ELSE "threw"
    /\ rLive' = rLive \ FinallyDeletes
    /\ UNCHANGED <<rOp, rBind, rLoop, rLog, sessionVars, scaleVars, detectVars,
                   gateVars>>

RunInit ==
    /\ rOp \in RunOps
    /\ rLoop \in {[kinds |-> k, i |-> 0] : k \in RunKinds}
    /\ RunStart
    /\ SessionStart("app")
    /\ ScaleIdle
    /\ DetectIdle
    /\ GateIdle

RunNext ==
    \/ RunAwaitGate
    \/ RunGateReady
    \/ RunGateFailed
    \/ RunLoadImage
    \/ RunLoadFailed
    \/ RunAllocate
    \/ RunSplit
    \/ RunMorph
    \/ RunFind
    \/ RunContourGet
    \/ RunContourDrop
    \/ RunContourApprox
    \/ RunContourDone
    \/ RunLoopEnd
    \/ RunThrow
    \/ RunFinally

RunSpec == RunInit /\ [][RunNext]_vars

---------------------------------------------------------------------------
\* Properties of the calibration engine, checked on the scaling runs (ScaleSpec)

\* r = Math.round(a / b) for b > 0: r - 1/2 <= a / b < r + 1/2
IsRound(r, a, b) == 2 * r * b - b <= 2 * a /\ 2 * a < 2 * r * b + b

\* real (a JavaScript value) is len pixels over ppm, rounded to hundredths of a mm
IsScaled(real, len, p) ==
    real.t = "num" /\ IsRound(real.v, 100 * COIN_DIAMETER_MM * len, p.v)

Positive(x) == x.t = "num" /\ x.v > 0

\* C1: after applyPPMToObject with a ppm > 0, every edge's realLength is its
\* pixelLength / ppm rounded to 2 decimals and measurements.perimeter is
\* perimeter / ppm rounded to 2 decimals, for every object and either library.
C1_ScaledByFormula ==
    (sLast.n > 0 /\ Positive(sPpm)) =>
        /\ Len(sObj.edges) = Len(sPrev.edges)
        /\ \A i \in 1..Len(sObj.edges) :
               IsScaled(sObj.edges[i].realLength, sPrev.edges[i].pixelLength, sPpm)
        /\ IsScaled(sObj.measurements.perimeter, sPrev.perimeter.v, sPpm)

\* C2: applyPPMToObject with ppm null, 0 or negative returns its argument
\* unchanged, realLength fields and measurements included.
C2_NoOpWithoutScale ==
    (sLast.n > 0 /\ (sPpm.t = "null" \/ (sPpm.t = "num" /\ sPpm.v <= 0))) =>
        sObj = sPrev

\* a second call with a negative ppm left an already scaled object as it was
C2_Witness ==
    /\ sLast.n = 2 /\ sPpm = Num(-265) /\ sObj = sPrev
    /\ \E i \in 1..Len(sPrev.edges) : sPrev.edges[i].realLength.t = "num"

\* C3: scaling is not cumulative: whatever calls came before, after a call
\* with a positive ppm the object is what that ppm gives on the original object.
C3_NotCumulative ==
    (sLast.n > 0 /\ Positive(sPpm)) =>
        sObj = IF sLib = "utils" THEN applyPPMToObjectUtils(sOrig, sPpm)
               ELSE applyPPMToObject(sOrig, sPpm)

\* two calls with positive ppm values, the first of which changed the object
C3_Witness ==
    /\ sLast.n = 2 /\ Positive(sPpm) /\ sPrev # sOrig /\ sObj # sPrev
    /\ \E i \in 1..Len(sPrev.edges) : sPrev.edges[i].realLength.t = "num"

\* C4: round trip: with ppm = calculatePPM(pixelDistance) for a pixelDistance > 0,
\* ppm is pixelDistance / 26.5 and every edge's realLength is
\* pixelLength * 26.5 / pixelDistance rounded to 2 decimals.
C4_RoundTrip ==
    (sLast.n > 0 /\ Positive(sLast.pixelDistance)) =>
        /\ sPpm = Num(10 * sLast.pixelDistance.v)
        /\ \A i \in 1..Len(sObj.edges) :
               /\ sObj.edges[i].realLength.t = "num"
               /\ IsRound(sObj.edges[i].realLength.v,
                          10 * COIN_DIAMETER_MM * sPrev.edges[i].pixelLength,
                          sLast.pixelDistance.v)

\* calibrated on 7 px: the 30 px edge measures 113.57 mm (30 * 26.5 / 7 = 113.571...)
C4_Witness ==
    /\ sLast.n > 0 /\ sLast.pixelDistance = Num(7)
    /\ \E i \in 1..Len(sObj.edges) :
           sObj.edges[i].pixelLength = 30 /\ sObj.edges[i].realLength = Num(11357)

---------------------------------------------------------------------------
\* Properties of the session, checked on Spec

CoinReferenceName == ObjectName("Coin (Reference)", 0)

HasCoinReference(objs) == \E i \in 1..Len(objs) : objs[i].name = CoinReferenceName

\* every realLength and the measurements.perimeter of o come from ppm value p
IsRecalibrated(o, p) ==
    /\ \A i \in 1..Len(o.edges) :
           IsScaled(o.edges[i].realLength, o.edges[i].pixelLength, p)
    /\ IsScaled(o.measurements.perimeter, o.perimeter.v, p)

\* an automatic coin detection returns, on an image in which it finds a coin
AutoCalibrationFound ==
    \E k \in 1..Len(tasks) :
        /\ tasks[k].kind \in {"autoCalibrate", "autoDetectCoin", "autoDetectAll"}
        /\ tasks' = RemoveAt(tasks, k)
        /\ detectCoin(ImageData(tasks[k].img)).found

\* the second manual calibration click lands
SecondCalibrationClick ==
    /\ mode = "manual_coin" /\ Len(coinPoints) = 1 /\ coinPoints' = <<>>
    /\ (ppm' # ppm \/ coinDiameter' # coinDiameter \/ objects' # objects)

\* C5: after a calibration action (a successful automatic coin detection, or the
\* second manual calibration click on a point away from the first) the session
\* has a positive ppm and every non-coin object has all its realLength values
\* and its measurements.perimeter computed from that ppm.
C5_FullRecalibration ==
    [][(AutoCalibrationFound \/ (SecondCalibrationClick /\ Positive(coinDiameter')))
          => /\ Positive(ppm')
             /\ \A i \in 1..Len(objects') :
                    ~objects'[i].isCoin => IsRecalibrated(objects'[i], ppm')]_vars

AllNull(o) == \A i \in 1..Len(o.edges) : o.edges[i].realLength.t = "null"
AllNonNull(o) == \A i \in 1..Len(o.edges) : o.edges[i].realLength.t # "null"

\* C6: every non-coin object of the collection is wholly uncalibrated or wholly
\* calibrated: its realLength fields are all null or all non-null, and its
\* measurements.perimeter is null exactly when they are null.
C6_WhollyCalibratedOrNot ==
    \A i \in 1..Len(objects) :
        ~objects[i].isCoin =>
            /\ AllNull(objects[i]) \/ AllNonNull(objects[i])
            /\ objects[i].measurements.perimeter.t = "null" <=> AllNull(objects[i])

NotCalibrated == ppm = Null /\ coinDiameter = Null /\ ~HasCoinReference(objects)

\* a step that calibrates: an automatic detection returning with a coin found,
\* or the second manual calibration click
CalibrationStep ==
    \/ AutoCalibrationFound
    \/ \E k \in 1..Len(tasks) :
           /\ tasks[k].kind = "autoDetectObjects"
           /\ tasks' = RemoveAt(tasks, k)
           /\ \E c \in 1..Len(ImageData(tasks[k].img).contours) :
                  IsCoinContour(ImageData(tasks[k].img).contours[c],
                                ImageData(tasks[k].img).width
                                    * ImageData(tasks[k].img).height)
    \/ mode = "manual_coin" /\ Len(coinPoints) = 1 /\ coinPoints' = <<>>

\* C7: the calibration state stays null until a calibration succeeds: a step that
\* is no successful calibration (an automatic detection that finds no coin
\* included) leaves ppm and coinDiameter null and adds no coin reference object.
C7_NullUntilCalibrated ==
    [][(NotCalibrated /\ ~CalibrationStep) => NotCalibrated']_vars

NonPositive(x) == x.t = "num" /\ x.v <= 0

\* C8: a calibration whose pixel distance is not positive is rejected before any
\* processing: it never becomes the coin diameter or the ppm of the session and
\* no coin reference object carries it.
C8_NonPositiveRejected ==
    /\ ~NonPositive(coinDiameter)
    /\ ~NonPositive(ppm)
    /\ \A i \in 1..Len(objects) :
           objects[i].name = CoinReferenceName => ~NonPositive(objects[i].pixelDistance)

\* C10: finishing a polygon of fewer than 3 points (the Finish button, or the
\* closing click after 2 points) creates no object: the collection is the same
\* after the attempt as before it.
C10_TooFewPointsRejected ==
    [][(\/ Len(newObjectPoints) \in 1..2 /\ newObjectPoints' = <<>>
        \/ Len(newObjectPoints) \in 1..2 /\ crashed' /\ ~crashed /\ tasks' = tasks)
          => objects' = objects]_vars

\* a finish attempt was turned down while the collection held an object: the
\* alert is up, the points are gone, the object is still there
C10_Witness ==
    /\ alertMessage = TooFewPoints
    /\ newObjectPoints = <<>>
    /\ mode = "create_object"
    /\ Len(objects) > 0

\* C13: every object of the collection has as many edges as points (none of
\* either for the coin reference objects, whose points are empty or absent),
\* whether it was traced, built by hand or rescaled by a calibration.
C13_EdgePerPoint ==
    \A k \in 1..Len(objects) : Len(objects[k].edges) = Len(objects[k].points)

\* a calibrated session holding the coin reference, a traced object and a polygon
\* built by hand, the last two rescaled
C13_Witness ==
    /\ Positive(ppm)
    /\ \E k \in 1..Len(objects) : objects[k].isCoin /\ Len(objects[k].points) = 0
    /\ \E k \in 1..Len(objects) :
           /\ objects[k].id.prefix = "obj" /\ Len(objects[k].edges) = 4
           /\ objects[k].edges[1].realLength.t = "num"
    /\ \E k \in 1..Len(objects) :
           /\ objects[k].id.prefix = "manual" /\ Len(objects[k].edges) = 3
           /\ objects[k].edges[1].realLength.t = "num"

\* o is a coin reference object exactly as one of the calibration paths builds it
AsBuilt(o) ==
    \/ o = CoinObject(o.pixelDistance, o.id.t)
    \/ o = HookCoinObject(o.pixelDistance, o.id.t, TRUE)
    \/ o = HookCoinObject(o.pixelDistance, o.id.t, FALSE)

\* C23: the scale is never applied to the coin reference object: once the ppm is
\* set the object still has the fields it was built with, its perimeter and its
\* measurements.diameter of 26.5 mm among them.
C23_CoinUntouched ==
    \A k \in 1..Len(objects) :
        (objects[k].isCoin /\ objects[k].name = CoinReferenceName) =>
            /\ objects[k].measurements.diameter = Num(COIN_DIAMETER_MM * 10)
            /\ AsBuilt(objects[k])

\* an automatic coin calibration (Auto Detect Coin) returns without an error
AutoCalibrationReturns ==
    \E k \in 1..Len(tasks) :
        /\ tasks[k].kind \in {"autoCalibrate", "autoDetectCoin"}
        /\ tasks' = RemoveAt(tasks, k)
        /\ alertMessage' = alertMessage

\* what a calibration has no business changing in an object
Shape(o) ==
    [id |-> o.id, name |-> o.name, isCoin |-> o.isCoin, points |-> o.points,
     area |-> o.area, perimeter |-> o.perimeter,
     pixelLengths |-> [i \in 1..Len(o.edges) |-> o.edges[i].pixelLength]]

\* C24: a calibration action keeps every non-coin object of the collection, in
\* order, with its id, name, points, edge pixel lengths, area and perimeter.
C24_NonCoinsKept ==
    [][(AutoCalibrationReturns \/ SecondCalibrationClick) =>
          /\ Len(NonCoins(objects')) = Len(NonCoins(objects))
          /\ \A i \in 1..Len(NonCoins(objects)) :
                 Shape(NonCoins(objects')[i]) = Shape(NonCoins(objects)[i])]_vars

\* a calibration action that sets a usable scale: the second manual click away
\* from the first, or an automatic calibration that returns
CalibrationSucceeds ==
    \/ SecondCalibrationClick /\ Positive(coinDiameter')
    \/ AutoCalibrationReturns

\* C25: after a successful calibration action the collection holds exactly one
\* object with isCoin = true: the coin reference object built by the action,
\* placed first; every coin object that was there before is gone.
C25_OneCoinFirst ==
    [][CalibrationSucceeds =>
          /\ Len(objects') >= 1
          /\ objects'[1].isCoin /\ objects'[1].name = CoinReferenceName
          /\ objects'[1].pixelDistance = coinDiameter'
          /\ \A k \in 2..Len(objects') : ~objects'[k].isCoin]_vars

\* a manual calibration has replaced the coin object the detection pass traced
C25_Witness ==
    /\ variant = "app"
    /\ Positive(ppm)
    /\ imageSrc = "imgA"
    /\ Len(objects) = 2
    /\ objects[1].name = CoinReferenceName
    /\ objects[2].id.prefix = "obj" /\ ~objects[2].isCoin

\* C22: the objects of the collection have pairwise distinct ids, whatever
\* detections, creations, deletions and calibrations came before and whatever the
\* clock returned to them.
C22_UniqueIds ==
    \A i, j \in 1..Len(objects) : i # j => objects[i].id # objects[j].id

---------------------------------------------------------------------------
\* Properties of the manual polygon builder, checked on the polygon runs (PolySpec)

RECURSIVE SeqSum(_, _)
SeqSum(seq, n) == IF n = 0 THEN 0 ELSE SeqSum(seq, n - 1) + seq[n]

\* the vertex after vertex i of a closed loop of n vertices
After(i, n) == IF i = n THEN 1 ELSE i + 1

\* twice the signed area of the closed loop pts
CrossSum(pts) ==
    SeqSum([i \in 1..Len(pts) |->
               pts[i].x * pts[After(i, Len(pts))].y
                   - pts[After(i, Len(pts))].x * pts[i].y], Len(pts))

\* len is the distance from a to b (rounded down where it is no whole number)
IsDistance(len, a, b) ==
    /\ len >= 0
    /\ len * len <= (b.x - a.x) * (b.x - a.x) + (b.y - a.y) * (b.y - a.y)
    /\ (len + 1) * (len + 1) > (b.x - a.x) * (b.x - a.x) + (b.y - a.y) * (b.y - a.y)

Square == <<Point(0, 0), Point(10, 0), Point(10, 10), Point(0, 10)>>

\* o is the polygon the claim describes for its own points
IsPolygonOf(o) ==
    LET pts == o.points
        n == Len(pts)
    IN /\ n >= 3
       /\ Len(o.edges) = n
       /\ \A i \in 1..n :
              /\ o.edges[i].start = pts[i]
              /\ o.edges[i].end = pts[After(i, n)]
              /\ IsDistance(o.edges[i].pixelLength, pts[i], pts[After(i, n)])
       /\ o.area = Num(Abs(CrossSum(pts)))
       /\ o.perimeter = Num(SeqSum([i \in 1..n |-> o.edges[i].pixelLength], n))
       /\ \A i \in 1..n :
              /\ pts[i].x >= o.contour.x.v
              /\ pts[i].x <= o.contour.x.v + o.contour.width.v
              /\ pts[i].y >= o.contour.y.v
              /\ pts[i].y <= o.contour.y.v + o.contour.height.v
       /\ \E i \in 1..n : pts[i].x = o.contour.x.v
       /\ \E i \in 1..n : pts[i].x = o.contour.x.v + o.contour.width.v
       /\ \E i \in 1..n : pts[i].y = o.contour.y.v
       /\ \E i \in 1..n : pts[i].y = o.contour.y.v + o.contour.height.v

\* C11: every polygon built by hand has the shoelace area of its points (held in
\* half square pixels), the sum of its n wrapping edges as perimeter and the
\* min/max extent of its points as bounding box; the square of side 10 has area
\* 100, perimeter 40 and four edges of pixelLength 10.
C11_PolygonMeasures ==
    \A k \in 1..Len(objects) :
        objects[k].id.prefix = "manual" =>
            /\ IsPolygonOf(objects[k])
            /\ objects[k].points = Square =>
                   /\ objects[k].area = Num(2 * 100)
                   /\ objects[k].perimeter = Num(40)
                   /\ \A i \in 1..4 : objects[k].edges[i].pixelLength = 10

\* the square has been built
C11_Witness ==
    \E k \in 1..Len(objects) :
        /\ objects[k].id.prefix = "manual"
        /\ objects[k].points = Square
        /\ objects[k].area = Num(200)

\* a click on p that lands within 10 px of the first gathered point
ClosingClick(p) ==
    /\ Len(newObjectPoints) >= 1
    /\ calculatePixelDistance(p, newObjectPoints[1]) < 10
    /\ \E t \in Times : handleCanvasClickCreate(p, t) \/ addManualObjectPoint(p, t)

\* the step added exactly one object, a polygon of the points gathered, and
\* emptied the in-progress list
OnePolygonAdded ==
    /\ Len(objects') = Len(objects) + 1
    /\ SubSeq(objects', 1, Len(objects)) = objects
    /\ objects'[Len(objects')].points = newObjectPoints
    /\ newObjectPoints' = <<>>

\* C12 as stated: a click within 10 px of the first point always finalizes the
\* polygon and adds exactly one object.
C12_AsStated ==
    [][(\E p \in PolyClicks : ClosingClick(p)) => OnePolygonAdded]_vars

\* C12: once at least 3 points have been gathered, a click within 10 px of the
\* first point finalizes the polygon from the points gathered (the closing point
\* left out), adds exactly one object and empties the in-progress list.
C12_ClosingClick ==
    [][(Len(newObjectPoints) >= 3 /\ \E p \in PolyClicks : ClosingClick(p))
          => OnePolygonAdded]_vars

\* the square was closed by a click near, not on, its first corner
C12_Witness ==
    /\ newObjectPoints = <<>>
    /\ mode = "select"
    /\ alertMessage = NoAlert
    /\ \E k \in 1..Len(objects) :
           /\ objects[k].id.prefix = "manual"
           /\ objects[k].points = Square
    /\ created = 1

---------------------------------------------------------------------------
\* Properties of the readiness gate, checked on the gate runs (GateSpec)

\* callers a and b were both awaiting the gate at some moment
Concurrent(a, b) ==
    /\ gCallers[a].st \in {"resolved", "rejected"}
    /\ gCallers[b].st \in {"resolved", "rejected"}
    /\ gCallers[a].start < gCallers[b].end
    /\ gCallers[b].start < gCallers[a].end

\* C18: callers that awaited the same gate at the same time all see one outcome:
\* never does one of them resolve while another rejects.
C18_OneOutcome ==
    \A a, b \in Callers :
        Concurrent(a, b) => gCallers[a].st = gCallers[b].st

\* the timers the call of caller c has pending (the gate of utils/opencvUtils.js
\* has one call behind its shared promise)
TimersOf(c) ==
    {tm \in gCv.timers : tm.of = IF gLib = "utils" THEN 0 ELSE c}

\* C26: the wait is bounded: a call is not left waiting once its 30 s are over
\* (to the step of the clock), and a call that has settled has no timer pending:
\* its polling loop has stopped.
C26_BoundedWait ==
    \A c \in Callers :
        /\ gCallers[c].st = "waiting" =>
               gNow - gCallers[c].start <= GateTimeout + GateTick
        /\ gCallers[c].st \in {"resolved", "rejected"} => TimersOf(c) = {}

---------------------------------------------------------------------------
\* Properties of a detection operation, checked on the operation runs (RunSpec)

\* C19: a detection operation awaits the gate, once, before it decodes or
\* processes anything; when the gate fails the operation fails with the
\* initialization error, having decoded and processed nothing, and it does not
\* call the gate again.
C19_GateFirst ==
    /\ rLog.gateCalls <= 1
    /\ (rLog.decoded \/ rLog.processed \/ rLive # {}) => rLog.gate = "ready"
    /\ rPc \notin {"call", "gate", "threw"} => rLog.gate = "ready"
    /\ rLog.gate = "failed" =>
           /\ rPc = "threw"
           /\ rLog.error = "init"
           /\ ~rLog.decoded /\ ~rLog.processed
           /\ rLive = {}

\* detectCoin has failed on the gate
C19_Witness ==
    /\ rOp = "detectCoin"
    /\ rLog.gate = "failed"
    /\ rPc = "threw"
    /\ rLog.gateCalls = 1

\* C20: when detectContours or detectCoin has returned or thrown, no native
\* buffer allocated during the call is still allocated.
C20_AllReleased ==
    rPc \in {"returned", "threw"} => rLive = {}

\* an OpenCV call throws while the loop body of detectContours holds a contour
ThrowInContour ==
    /\ rOp = "detectContours"
    /\ rPc \in {"contour", "approx"}
    /\ RunThrow

\* C21: an exception raised while one contour is analysed rejects that contour
\* only: the loop goes on with the next contour and the pass does not fail.
C21_ContourErrorIsolated ==
    [][ThrowInContour => (rPc' = "loop" /\ rLoop'.i = rLoop.i + 1)]_vars

---------------------------------------------------------------------------
\* Properties of the shape analyzer, checked on the detection runs (DetectSpec)

\* the detection pass of the copy under test has returned its objects
ContoursReturned == "detectContours" \in dRan /\ dObjects.ok

\* the contour an object of opencvUtils was traced from: its id carries the index
SourceContour(o) == dImage.contours[o.id.n + 1]

\* the bounding box recorded in o lies more than m pixels inside every image edge
InsideMargin(o, m) ==
    /\ o.contour.x.v > m
    /\ o.contour.y.v > m
    /\ o.contour.x.v + o.contour.width.v < dImage.width - m
    /\ o.contour.y.v + o.contour.height.v < dImage.height - m

\* C14: no object returned by a detection pass has a bounding box that touches an
\* image edge (pixel column 0, row 0, the last column or row), and none returned
\* by opencvUtils lies within its 10 px margin.
C14_BorderRejected ==
    ContoursReturned =>
        \A k \in 1..Len(dObjects.objects) :
            InsideMargin(dObjects.objects[k], IF dLib = "opencvUtils" THEN 10 ELSE 0)

\* contour c passes the size tests of the claim: area within [3000, imageArea / 2],
\* width and height at least 30
SizeAccepted(c) ==
    /\ c.area >= 3000
    /\ 2 * c.area <= dImage.width * dImage.height
    /\ c.width >= 30
    /\ c.height >= 30

C16_CoinClassification ==
    (ContoursReturned /\ dLib = "opencvUtils") =>
        \A k \in 1..Len(dObjects.objects) :
            LET c == SourceContour(dObjects.objects[k])
            IN dObjects.objects[k].isCoin <=>
                   /\ CircularityAbove(c, 60, 100)
                   /\ c.area > 2500
                   /\ 10 * c.area < 4 * dImage.width * dImage.height
                   /\ 100 * c.width >= 65 * c.height
                   /\ 100 * c.width <= 135 * c.height

\* the number of non-coin objects among the first k of objs
NonCoinsUpTo(objs, k) == Cardinality({j \in 1..k : ~objs[j].isCoin})

\* C17: in the objects of one detection pass a coin is named "Coin" and the n-th
\* non-coin object is named "Object n", whatever coins come between them.
C17_NamedInOrder ==
    ContoursReturned =>
        \A k \in 1..Len(dObjects.objects) :
            dObjects.objects[k].name =
                IF dObjects.objects[k].isCoin THEN ObjectName("Coin", 0)
                ELSE ObjectName("Object", NonCoinsUpTo(dObjects.objects, k))

\* C9: once OpenCV has loaded, detectCoin completes with a result value, never a
\* rejection; found is true exactly when pixelDiameter is non-null; when no
\* contour qualifies as a coin the result is {found: false, pixelDiameter: null}.
C9_NotFoundIsAResult ==
    ("detectCoin" \in dRan /\ dImage.cvReady) =>
        /\ dCoin.t = "object"
        /\ dCoin.found <=> dCoin.pixelDiameter # Null
        /\ (\A i \in 1..Len(dImage.coinContours) :
                ~CoinCandidate(dImage.coinContours[i], dImage.width, dImage.height))
              => dCoin.found = FALSE /\ dCoin.pixelDiameter = Null

\* detectCoin has returned not-found on an image that has contours, none a coin
C9_Witness ==
    /\ "detectCoin" \in dRan
    /\ dImage.cvReady /\ dImage.decodes /\ Len(dImage.coinContours) = MaxContours
    /\ dCoin = CoinResult(FALSE, Null)

\* reader.onload of the upload held by task k runs: setImageFile has stored the
\* image and autoDetectAll has returned at once or reached its first await
UploadLoaded(k) ==
    /\ tasks[k].kind = "handleChange"
    /\ \/ tasks' = RemoveAt(tasks, k)
       \/ Len(tasks') = Len(tasks) /\ tasks'[k].kind # "handleChange"

\* C30: after an upload the automatic detection started by it runs on the image
\* just uploaded, the one its setImageFile stored: never on the image loaded
\* before, and never skipped because no image is seen.
C30_DetectsUploadedImage ==
    [][\A k \in 1..Len(tasks) :
          UploadLoaded(k) =>
              /\ imageSrc' = tasks[k].img
              /\ Len(tasks') = Len(tasks)
              /\ tasks'[k].kind = "autoDetectAll"
              /\ tasks'[k].img = imageSrc']_vars

\* the handlers in flight that run a detection or calibration operation (a
\* handleChange still reading its file has started none)
InFlight ==
    {k \in 1..Len(tasks) : tasks[k].kind # "handleChange"}

\* C29: the processing flag tracks the work in flight: it is true when some
\* detection or calibration operation has started and not finished, and false
\* otherwise, also when an upload's detection and an auto coin calibration overlap.
C29_ProcessingTracksWork == isProcessing <=> InFlight # {}

\* C28: applyPPMToObject keeps the two views of the edges consistent: for any
\* object and any ppm > 0 the result has edges[i].realLength equal to
\* measurements.edges[i].realLength for every i, and both lists are as long as
\* the edges of the input.
C28_EdgeViewsAgree ==
    [][(sLast'.n = sLast.n + 1 /\ Positive(sPpm')) =>
          /\ Len(sObj'.edges) = Len(sObj.edges)
          /\ Len(sObj'.measurements.edges) = Len(sObj.edges)
          /\ \A i \in 1..Len(sObj.edges) :
                sObj'.edges[i].realLength = sObj'.measurements.edges[i].realLength]_vars

\* the contours of the image that pass the coin filters of detectCoin, by index
Passing ==
    {i \in 1..Len(dImage.coinContours) :
        CoinCandidate(dImage.coinContours[i], dImage.width, dImage.height)}

\* 4 * PI * area / perimeter^2 of contour i against that of contour j
Rounder(i, j) ==
    LET c == dImage.coinContours[i]
        b == dImage.coinContours[j]
    IN c.area * b.arcLength * b.arcLength > b.area * c.arcLength * c.arcLength

\* contour i is the earliest of the passing contours of highest circularity
Winner(i) ==
    /\ i \in Passing
    /\ \A j \in Passing : ~Rounder(j, i) /\ (j < i => Rounder(i, j))

=============================================================================
